---- MODULE Spec2Model ----
(***************************************************************************)
(* A model of vike-plugin-sitemap: the route-resolution engine that maps   *)
(* a pages tree to sitemap entries, its clash policy, the merge of custom  *)
(* entries, and the build-time and dev-time handlers that publish them.    *)
(*                                                                         *)
(* Strings are sequences of one-character strings, so that startsWith,     *)
(* split, join, substring and the slash-collapsing replace are computed    *)
(* character by character, as the code computes them.                      *)
(***************************************************************************)
EXTENDS Integers, Sequences, FiniteSets, TLC

(***************************************************************************)
(* Bounds of the model.                                                    *)
(***************************************************************************)
\* at most this many files in the pages tree
MaxPages == 3
\* at most this many caller-supplied custom entries
MaxCustom == 2
\* directories of the tree are at most this deep
MaxDirDepth == 2
\* at most this many changes of the pages tree while the dev server runs
MaxChanges == 1
\* at most this many paths in a list handed to a sorter
MaxSorted == 4

(***************************************************************************)
(* String literals used by the code and by the inputs of the model.        *)
(***************************************************************************)
S_index == <<"i", "n", "d", "e", "x">>
S_pages == <<"p", "a", "g", "e", "s">>
S_a == <<"a">>
S_group == <<"(", "g", ")">>
S_private == <<"_", "d">>
S_dynamic == <<"@", "i", "d">>
S_PagePrefix == <<"+", "P", "a", "g", "e", ".">>
S_PageTsx == S_PagePrefix \o <<"t", "s", "x">>
S_PageClientTsx == S_PagePrefix \o <<"c", "l", "i", "e", "n", "t", ".", "t", "s", "x">>
S_aPageTsx == S_a \o S_PageTsx
S_indexPageTsx == S_index \o S_PageTsx
S_slash == <<"/">>
S_httpX == <<"h", "t", "t", "p", ":", "/", "/", "x">>
S_httpXslash == S_httpX \o S_slash
S_cwd == <<"/", "w">>
S_rootDir == S_cwd \o <<"/", "p", "a", "g", "e", "s">>
S_routes == <<"r", "o", "u", "t", "e", "s">>
S_sitemapXml == <<"s", "i", "t", "e", "m", "a", "p", ".", "x", "m", "l">>
S_robotsTxt == <<"r", "o", "b", "o", "t", "s", ".", "t", "x", "t">>
S_star == <<"*">>
S_bot == <<"b", "o", "t">>
S_newline == <<"\n">>
S_undefined == <<"u", "n", "d", "e", "f", "i", "n", "e", "d">>
S_UserAgent == <<"U", "s", "e", "r", "-", "a", "g", "e", "n", "t", ":", " ">>
S_DisallowCloudflare ==
    <<"D", "i", "s", "a", "l", "l", "o", "w", ":", " ", "/", "c", "d", "n", "-", "c", "g", "i", "/">>
S_Sitemap == <<"S", "i", "t", "e", "m", "a", "p", ":", " ">>
S_httpLocalhost3000 ==
    <<"h", "t", "t", "p", ":", "/", "/", "l", "o", "c", "a", "l", "h", "o", "s", "t", ":",
      "3", "0", "0", "0">>

(***************************************************************************)
(* String primitives of JavaScript.                                        *)
(***************************************************************************)
startsWith(s, p) == Len(s) >= Len(p) /\ SubSeq(s, 1, Len(p)) = p

endsWith(s, p) == Len(s) >= Len(p) /\ SubSeq(s, Len(s) - Len(p) + 1, Len(s)) = p

\* s.substring(n): the characters of s from offset n on
substring(s, n) == SubSeq(s, n + 1, Len(s))

RECURSIVE join(_, _)
\* segs.join(sep)
join(segs, sep) ==
    IF segs = <<>> THEN <<>>
    ELSE IF Len(segs) = 1 THEN segs[1]
    ELSE segs[1] \o sep \o join(Tail(segs), sep)

RECURSIVE splitFrom(_, _, _, _)
splitFrom(s, c, cur, acc) ==
    IF s = <<>> THEN Append(acc, cur)
    ELSE IF Head(s) = c THEN splitFrom(Tail(s), c, <<>>, Append(acc, cur))
    ELSE splitFrom(Tail(s), c, Append(cur, Head(s)), acc)

\* s.split(c) for a one-character separator: "" splits to [""]
split(s, c) == splitFrom(s, c, <<>>, <<>>)

\* array.filter(Boolean) on strings: the empty string is falsy
filterBoolean(parts) == SelectSeq(parts, LAMBDA p : p # <<>>)

RECURSIVE collapseSlashes(_)
\* s.replace(/\/+/g, '/'): every run of slashes becomes one slash
collapseSlashes(s) ==
    IF Len(s) < 2 THEN s
    ELSE IF s[1] = "/" /\ s[2] = "/" THEN collapseSlashes(Tail(s))
    ELSE <<s[1]>> \o collapseSlashes(Tail(s))

\* s.includes(sub)
includes(s, sub) == \E i \in 0..(Len(s) - Len(sub)) : SubSeq(s, i + 1, i + Len(sub)) = sub

\* /^\(.*\)$/.test(name)
isParenthesized(name) == Len(name) >= 2 /\ name[1] = "(" /\ name[Len(name)] = ")"

(***************************************************************************)
(* localeCompare: the collation order of the characters the model uses     *)
(* (punctuation before letters, letters alphabetically), compared          *)
(* character by character, a proper prefix first.                          *)
(***************************************************************************)
Collation ==
    <<"_", ":", ".", "(", ")", "@", "/", "+",
      "a", "b", "c", "d", "e", "g", "h", "i", "l", "n", "o", "p", "P", "r", "s", "t", "w", "x",
      "z">>

charRank(c) == CHOOSE i \in 1..Len(Collation) : Collation[i] = c

RECURSIVE localeCompare(_, _)
localeCompare(s, t) ==
    IF s = <<>> /\ t = <<>> THEN 0
    ELSE IF s = <<>> THEN -1
    ELSE IF t = <<>> THEN 1
    ELSE IF charRank(Head(s)) < charRank(Head(t)) THEN -1
    ELSE IF charRank(Head(s)) > charRank(Head(t)) THEN 1
    ELSE localeCompare(Tail(s), Tail(t))

(***************************************************************************)
(* Values of JavaScript that are not strings.                              *)
(***************************************************************************)
Undefined == [undefined |-> TRUE]

\* undefined where a string is expected: a one-element sequence no string equals
UndefinedString == <<"undefined">>

\* an object-valued and a string-valued option the caller's object has no key for
Missing == [missing |-> TRUE]
MissingString == <<"missing">>

\* reading a string property without regard for a key that is not there
readOptionAsStored(v) == v

\* reading a string property: undefined when the object has no such key
readOption(v) == IF v = MissingString THEN UndefinedString ELSE v

\* {...defaults, ...options}: a key of the caller's object wins, whatever its value
spread(default, v) == IF v = MissingString THEN default ELSE v

\* a value as string concatenation and template literals render it
stringOf(v) == IF v = UndefinedString THEN S_undefined ELSE v

\* l ?? r: r only when l is null or undefined (the empty string is kept)
nullishCoalesce(l, r) == IF l = Undefined THEN r ELSE l

(***************************************************************************)
(* The file system besides the shape of the tree: the directories readdir  *)
(* fails on, the paths stat fails on, and the paths modified since the     *)
(* first of the two instants of the model.                                 *)
(***************************************************************************)
VARIABLE fs

NoFaults == [unreadable |-> {}, failing |-> {}, modified |-> {}]

\* updateContent has not been called: the passes, in the order they were called
NoPasses == <<>>

(***************************************************************************)
(* The pages tree.  A file is [dir, name]: the directory segments from the *)
(* scan root down to the file, and the file's name.  readdir with          *)
(* recursive: true returns one Dirent per file and per directory, each     *)
(* with the path of its parent.                                            *)
(***************************************************************************)
\* the path string of a directory given by its segments below rootDir
pathOf(rootDir, segs) ==
    IF segs = <<>> THEN rootDir ELSE rootDir \o S_slash \o join(segs, S_slash)

direntOfFile(rootDir, f) ==
    [parentPath |-> pathOf(rootDir, f.dir), name |-> f.name, isDirectory |-> FALSE]

\* the directories a tree holds: every non-empty prefix of a file's directory
dirsOf(tree) == UNION {{SubSeq(f.dir, 1, n) : n \in 1..Len(f.dir)} : f \in tree}

direntOfDir(rootDir, d) ==
    [parentPath |-> pathOf(rootDir, SubSeq(d, 1, Len(d) - 1)), name |-> d[Len(d)],
     isDirectory |-> TRUE]

\* the orders in which the file system may enumerate the files of a tree
fileOrders(tree) ==
    {e \in [1..Cardinality(tree) -> tree] : \A i, j \in 1..Cardinality(tree) : i # j => e[i] # e[j]}

\* the Dirents of the directories that lead to file f, outermost first
direntsAbove(rootDir, f) == [n \in 1..Len(f.dir) |-> direntOfDir(rootDir, SubSeq(f.dir, 1, n))]

\* the Dirents of a tree with its files in the order e: a directory is listed once,
\* before the first file that lies beneath it
listing(rootDir, e) ==
    LET upTo[i \in 0..Len(e)] ==
            IF i = 0 THEN <<>>
            ELSE upTo[i - 1]
                 \o SelectSeq(direntsAbove(rootDir, e[i]),
                              LAMBDA d : \A k \in 1..Len(upTo[i - 1]) : upTo[i - 1][k] # d)
                 \o <<direntOfFile(rootDir, e[i])>>
    IN  upTo[Len(e)]

\* what fs.readdir returns for a tree, in each order of its files
enumerations(rootDir, tree) == {listing(rootDir, e) : e \in fileOrders(tree)}

(***************************************************************************)
(* getResolvedPages: the Path Classifier of the current generator.         *)
(***************************************************************************)
isIndexable(dirent) == startsWith(dirent.name, S_PagePrefix)

accepted(urlPath) == [accepted |-> TRUE, urlPath |-> urlPath, rejectReason |-> "none"]

rejected(reason) == [accepted |-> FALSE, urlPath |-> <<>>, rejectReason |-> reason]

\* resolve() publishing every page at the root
resolveToRoot(spSegments) == accepted(S_slash)

RECURSIVE resolveFrom(_, _)
\* the loop of resolve() over the remaining segments, segmentsOut so far
resolveFrom(segs, segmentsOut) ==
    IF segs = <<>>
    THEN LET out == join(segmentsOut, S_slash) \o S_slash
         IN  accepted(IF Len(segmentsOut) # 0 THEN S_slash \o out ELSE out)
    ELSE LET segment == Head(segs)
         IN  IF segment = S_index THEN resolveFrom(Tail(segs), segmentsOut)
             ELSE IF segment = S_pages THEN resolveFrom(Tail(segs), segmentsOut)
             ELSE IF startsWith(segment, <<"(">>) /\ endsWith(segment, <<")">>)
                  THEN resolveFrom(Tail(segs), segmentsOut)
             ELSE IF startsWith(segment, <<"_">>) THEN rejected("specialFolder")
             ELSE IF startsWith(segment, <<"@">>) THEN rejected("SSGUnhandled")
             ELSE resolveFrom(Tail(segs), Append(segmentsOut, segment))

resolve(spSegments) == resolveFrom(spSegments, <<>>)

resolvedPage(rootDir, e) ==
    LET shortPath == substring(e.parentPath, Len(rootDir))
        spSegments == filterBoolean(split(shortPath, "/"))
    IN  [shortPath |-> shortPath, spSegments |-> spSegments, resolution |-> resolve(spSegments)]

\* items: the Dirents in the order readdir returned them
getResolvedPages(rootDir, items) ==
    LET indexable == SelectSeq(items, isIndexable)
    IN  [i \in 1..Len(indexable) |-> resolvedPage(rootDir, indexable[i])]

(***************************************************************************)
(* resolvedPagesSorter and Array.prototype.sort.                           *)
(***************************************************************************)
RECURSIVE sorterFrom(_, _, _)
\* the comparator's loop from position i on
sorterFrom(pathA, pathB, i) ==
    LET minLength == IF Len(pathA) < Len(pathB) THEN Len(pathA) ELSE Len(pathB)
    IN  IF i > minLength THEN Len(pathA) - Len(pathB)
        ELSE LET segmentA == pathA[i]
                 segmentB == pathB[i]
             IN  IF i = Len(pathA) /\ segmentA = S_index THEN -1
                 ELSE IF i = Len(pathB) /\ segmentB = S_index THEN 1
                 ELSE IF startsWith(segmentA, <<"@">>) /\ ~startsWith(segmentB, <<"@">>) THEN -1
                 ELSE IF startsWith(segmentB, <<"@">>) /\ ~startsWith(segmentA, <<"@">>) THEN 1
                 ELSE IF segmentA # segmentB THEN localeCompare(segmentA, segmentB)
                 ELSE sorterFrom(pathA, pathB, i + 1)

resolvedPagesSorter(a, b) == sorterFrom(a.spSegments, b.spSegments, 1)

\* x placed after the last element of the sorted run that does not compare greater
insertSorted(run, x) ==
    LET notGreater == {j \in 1..Len(run) : resolvedPagesSorter(run[j], x) <= 0}
        k == IF notGreater = {} THEN 0 ELSE CHOOSE j \in notGreater : \A m \in notGreater : m <= j
    IN  SubSeq(run, 1, k) \o <<x>> \o SubSeq(run, k + 1, Len(run))

\* array.sort(resolvedPagesSorter): a stable insertion sort, which is what the engine
\* runs on short arrays
sort(array) ==
    LET run[i \in 0..Len(array)] ==
            IF i = 0 THEN <<>> ELSE insertSorted(run[i - 1], array[i])
    IN  run[Len(array)]

(***************************************************************************)
(* sortSitemapEntries: the sort of the final entry list by the segments of *)
(* loc, in the generator that sorts entries rather than pages.             *)
(***************************************************************************)
RECURSIVE entrySorterFrom(_, _, _)
\* the comparator's loop from position i on; the segments come out of filter(Boolean)
entrySorterFrom(pathA, pathB, i) ==
    LET minLength == IF Len(pathA) < Len(pathB) THEN Len(pathA) ELSE Len(pathB)
    IN  IF i > minLength THEN Len(pathA) - Len(pathB)
        ELSE LET segmentA == pathA[i]
                 segmentB == pathB[i]
             IN  IF i = Len(pathA) /\ segmentA = <<>> THEN -1
                 ELSE IF i = Len(pathB) /\ segmentB = <<>> THEN 1
                 ELSE IF startsWith(segmentA, <<"@">>) /\ ~startsWith(segmentB, <<"@">>) THEN -1
                 ELSE IF startsWith(segmentB, <<"@">>) /\ ~startsWith(segmentA, <<"@">>) THEN 1
                 ELSE IF segmentA # segmentB THEN localeCompare(segmentA, segmentB)
                 ELSE entrySorterFrom(pathA, pathB, i + 1)

\* loc.split('/').filter(Boolean)
locSegments(loc) == filterBoolean(split(loc, "/"))

\* a comparator that looks at the number of segments only
sitemapEntriesSorterByLength(a, b) == Len(locSegments(a.loc)) - Len(locSegments(b.loc))

\* the comparator with its two sides exchanged
sitemapEntriesSorterReversed(a, b) == entrySorterFrom(locSegments(b.loc), locSegments(a.loc), 1)

\* the comparator passed to entries.sort
sitemapEntriesSorter(a, b) == entrySorterFrom(locSegments(a.loc), locSegments(b.loc), 1)

insertEntrySorted(run, x) ==
    LET notGreater == {j \in 1..Len(run) : sitemapEntriesSorter(run[j], x) <= 0}
        k == IF notGreater = {} THEN 0 ELSE CHOOSE j \in notGreater : \A m \in notGreater : m <= j
    IN  SubSeq(run, 1, k) \o <<x>> \o SubSeq(run, k + 1, Len(run))

\* entries.sort(comparator), as sort above
sortSitemapEntries(entries) ==
    LET run[i \in 0..Len(entries)] ==
            IF i = 0 THEN <<>> ELSE insertEntrySorted(run[i - 1], entries[i])
    IN  run[Len(entries)]

(***************************************************************************)
(* DuplicateHandler.                                                       *)
(***************************************************************************)
\* one step of the reduce of groupBy: item joins the group of its key, or opens one
groupByStep(groups, item) ==
    LET key == item.resolution
        at == {g \in 1..Len(groups) : groups[g][1].resolution = key}
    IN  IF at = {} THEN Append(groups, <<item>>)
        ELSE LET g == CHOOSE g \in at : TRUE
             IN  [groups EXCEPT ![g] = Append(groups[g], item)]

\* groupBy(array, (e) => e.resolution): Object.values keeps the groups in the order
\* their keys were first seen
groupBy(array) ==
    LET result[i \in 0..Len(array)] ==
            IF i = 0 THEN <<>> ELSE groupByStep(result[i - 1], array[i])
    IN  result[Len(array)]

getResolutionMessage(options) ==
    CASE options.clashingPathsResolution = "ignore" -> "Still adding to sitemap."
      [] options.clashingPathsResolution = "remove" -> "Removed from sitemap."
      [] options.clashingPathsResolution = "error" -> "Cancelling."

\* the text of a clash message: the clashing short paths and the resolution taken
getMessage(options, clashingPaths) ==
    [text |-> "Routes definition clash found",
     paths |-> [i \in 1..Len(clashingPaths) |-> clashingPaths[i].shortPath],
     resolution |-> getResolutionMessage(options)]

\* the empty string
EmptyMessage == [text |-> "", paths |-> <<>>, resolution |-> ""]

\* the message resolveDuplicate holds after its debug block
duplicateMessage(options, clashingPaths) ==
    IF options.debug.printRoutes THEN getMessage(options, clashingPaths) ELSE EmptyMessage

\* what resolveDuplicate logs with console.warn
duplicateWarnings(options, clashingPaths) ==
    IF options.debug.printRoutes THEN <<getMessage(options, clashingPaths)>> ELSE <<>>

\* resolveDuplicate with 'ignore' keeping the last clashing path instead of the first
resolveDuplicateKeepingLast(options, clashingPaths) ==
    [returned |-> IF options.clashingPathsResolution = "ignore"
                  THEN <<clashingPaths[Len(clashingPaths)]>> ELSE <<>>,
     threw |-> options.clashingPathsResolution = "error",
     thrown |-> EmptyMessage,
     warned |-> duplicateWarnings(options, clashingPaths)]

\* resolveDuplicate with 'remove' falling through to what 'ignore' returns
resolveDuplicateFallingThrough(options, clashingPaths) ==
    [returned |-> IF options.clashingPathsResolution = "error"
                  THEN <<>> ELSE <<clashingPaths[1]>>,
     threw |-> options.clashingPathsResolution = "error",
     thrown |-> EmptyMessage,
     warned |-> duplicateWarnings(options, clashingPaths)]

\* [returned, threw, thrown, warned]: the outcome of resolveDuplicate on one clash group
resolveDuplicate(options, clashingPaths) ==
    LET message == duplicateMessage(options, clashingPaths)
        warned == duplicateWarnings(options, clashingPaths)
    IN  CASE options.clashingPathsResolution = "ignore" ->
               [returned |-> <<clashingPaths[1]>>, threw |-> FALSE, thrown |-> EmptyMessage,
                warned |-> warned]
          [] options.clashingPathsResolution = "remove" ->
               [returned |-> <<>>, threw |-> FALSE, thrown |-> EmptyMessage, warned |-> warned]
          [] options.clashingPathsResolution = "error" ->
               [returned |-> <<>>, threw |-> TRUE,
                thrown |-> nullishCoalesce(message, getMessage(options, clashingPaths)),
                warned |-> warned]

(***************************************************************************)
(* EntryBuilder and getSitemapEntries of the current generator.            *)
(***************************************************************************)
\* options.formatDate, date.toISOString() by default: the instant in text
formatDate(date) == [iso |-> date]

\* fs.stat(filePath).mtime: one of two instants, the later for a path modified since
statMtime(filePath) == IF filePath \in fs.modified THEN 2 ELSE 1

\* a lookup that gives up on every path once stat has failed on one
getLastModifiedDateAllOrNothing(filePath) ==
    IF fs.failing # {} THEN Undefined
    ELSE [mtimeOf |-> filePath, formatted |-> formatDate(statMtime(filePath))]

\* the formatted modification time of filePath, undefined when fs.stat fails; mtimeOf
\* records which path was read
getLastModifiedDate(filePath) ==
    IF filePath \in fs.failing THEN Undefined
    ELSE [mtimeOf |-> filePath, formatted |-> formatDate(statMtime(filePath))]

\* what getLastModifiedDate logs with console.warn
statWarning(filePath) ==
    [text |-> "Could not get last modified date for", paths |-> <<filePath>>, resolution |-> ""]

\* the warnings of getLastModifiedDate over the paths it is called on, in their order
statWarningsOf(filePaths) ==
    LET unavailable == SelectSeq(filePaths, LAMBDA q : q \in fs.failing)
    IN  [i \in 1..Len(unavailable) |-> statWarning(unavailable[i])]

ssgWarning(shortPath) ==
    [text |-> "Cannot generate SSG path yet for", paths |-> <<shortPath>>, resolution |-> ""]

\* the filter callback reading the wrong debug flag
filterWarningsOnPrintRoutes(options, page) ==
    IF ~page.resolution.accepted /\ options.debug.printRoutes
       /\ page.resolution.rejectReason = "SSGUnhandled"
    THEN <<ssgWarning(page.shortPath)>>
    ELSE <<>>

\* what the filter callback logs for one page
filterWarnings(options, page) ==
    IF ~page.resolution.accepted /\ options.debug.printIgnored
       /\ page.resolution.rejectReason = "SSGUnhandled"
    THEN <<ssgWarning(page.shortPath)>>
    ELSE <<>>

\* one step of the flatMap over the groups; nothing runs once a group has thrown
flatMapStep(options, acc, group) ==
    IF acc.threw THEN acc
    ELSE IF Len(group) > 1
         THEN LET r == resolveDuplicate(options, group)
              IN  [kept |-> acc.kept \o r.returned, threw |-> r.threw, thrown |-> r.thrown,
                   warned |-> acc.warned \o r.warned]
         ELSE [acc EXCEPT !.kept = acc.kept \o group]

sitemapEntryOf(options, dir, page) ==
    [loc |-> stringOf(options.baseUrl) \o page.resolution.urlPath,
     lastmod |-> getLastModifiedDate(dir \o page.shortPath),
     changefreq |-> options.defaultChangefreq,
     priority |-> options.defaultPriority]

\* everything the filter callback logs over the sorted pages
ignoredWarnings(options, sorted) ==
    LET ignoredLog[i \in 0..Len(sorted)] ==
            IF i = 0 THEN <<>> ELSE ignoredLog[i - 1] \o filterWarnings(options, sorted[i])
    IN  ignoredLog[Len(sorted)]

\* the flatMap over the groups
withoutDuplicatesOf(options, groups) ==
    LET dedup[i \in 0..Len(groups)] ==
            IF i = 0
            THEN [kept |-> <<>>, threw |-> FALSE, thrown |-> EmptyMessage, warned |-> <<>>]
            ELSE flatMapStep(options, dedup[i - 1], groups[i])
    IN  dedup[Len(groups)]

\* the tail of getSitemapEntries, from the groups on
entriesOfGroups(options, dir, classified, ignored, groups, done) ==
    [classified |-> classified,
     groups |-> groups,
     threw |-> done.threw,
     thrown |-> done.thrown,
     warned |-> ignored \o done.warned
                 \o (IF done.threw THEN <<>>
                     ELSE statWarningsOf([i \in 1..Len(done.kept) |-> dir \o done.kept[i].shortPath])),
     entries |-> IF done.threw THEN <<>>
                 ELSE [i \in 1..Len(done.kept) |-> sitemapEntryOf(options, dir, done.kept[i])]]

\* the middle of getSitemapEntries, from the sorted pages on
entriesOfSorted(options, dir, classified, sorted, groups) ==
    entriesOfGroups(options, dir, classified, ignoredWarnings(options, sorted), groups,
                    withoutDuplicatesOf(options, groups))

\* the head of getSitemapEntries, from the classified pages on
entriesOfClassified(options, dir, classified, sorted) ==
    entriesOfSorted(options, dir, classified, sorted,
        groupBy(SelectSeq(sorted, LAMBDA p : p.resolution.accepted)))

\* getSitemapEntries(options, dir) on the Dirents readdir returned, in their order
getSitemapEntries(options, dir, items) ==
    LET classified == getResolvedPages(dir, items)
    IN  entriesOfClassified(options, dir, classified, sort(classified))

(***************************************************************************)
(* generateSitemapContent and writeSitemapToDisk of the current generator. *)
(***************************************************************************)
customDuplicateWarning(loc) ==
    [text |-> "Duplicate custom URL", paths |-> <<loc>>, resolution |-> ""]

routeLog(entry) == [text |-> "route", paths |-> <<entry.loc>>, resolution |-> ""]

\* one turn of the loop over customEntries
customStep(acc, entry) ==
    IF entry.loc \in acc.existingLocations
    THEN [acc EXCEPT !.warned = Append(acc.warned, customDuplicateWarning(entry.loc))]
    ELSE [acc EXCEPT !.existingLocations = acc.existingLocations \cup {entry.loc},
                     !.entries = Append(acc.entries, entry)]

\* the XML document: one url element per entry, in the order of the list
xmlOf(entries) == [urlset |-> entries]

\* the loop over customEntries, on top of the discovered entries
mergeCustomEntries(options, discovered) ==
    LET merge[i \in 0..Len(options.customEntries)] ==
            IF i = 0
            THEN [existingLocations |-> {}, entries |-> discovered, warned |-> <<>>]
            ELSE customStep(merge[i - 1], options.customEntries[i])
    IN  merge[Len(options.customEntries)]

\* generateSitemapContent once getSitemapEntries has returned pass and the loop merged
contentOf(options, pass, merged) ==
    IF pass.threw
    THEN [threw |-> TRUE, thrown |-> pass.thrown, warned |-> pass.warned, logged |-> <<>>,
          entries |-> <<>>, content |-> xmlOf(<<>>), pass |-> pass]
    ELSE [threw |-> FALSE, thrown |-> EmptyMessage, warned |-> pass.warned \o merged.warned,
          logged |-> IF options.debug.printRoutes
                     THEN [i \in 1..Len(merged.entries) |-> routeLog(merged.entries[i])]
                     ELSE <<>>,
          entries |-> merged.entries, content |-> xmlOf(merged.entries), pass |-> pass]

\* generateSitemapContent once getSitemapEntries has returned pass
contentOfPass(options, pass) == contentOf(options, pass, mergeCustomEntries(options, pass.entries))

\* generateSitemapContent(options): [threw, thrown, warned, logged, entries, content, pass]
generateSitemapContent(options, dir, items) ==
    contentOfPass(options, getSitemapEntries(options, dir, items))

(***************************************************************************)
(* generateRobotsTxtContent: the robots.txt of the build and of the dev    *)
(* server.                                                                 *)
(***************************************************************************)
\* robots: false
RobotsFalse == [disabled |-> TRUE]

isWhitespace(c) == c \in {" ", "\n", "\t"}

RECURSIVE trimStart(_)
trimStart(s) == IF s # <<>> /\ isWhitespace(Head(s)) THEN trimStart(Tail(s)) ELSE s

RECURSIVE trimEnd(_)
trimEnd(s) ==
    IF s # <<>> /\ isWhitespace(s[Len(s)]) THEN trimEnd(SubSeq(s, 1, Len(s) - 1)) ELSE s

\* String.prototype.trim
trim(s) == trimEnd(trimStart(s))

\* `${baseUrl}/${filename}`.replace(/\/+/g, '/')
sitemapUrl(options) ==
    collapseSlashes(stringOf(options.baseUrl) \o S_slash \o options.filename)

\* the template literal of three lines
robotsFile(options) ==
    S_UserAgent \o stringOf(options.robots.userAgent) \o S_newline
        \o (IF options.robots.disallow.cloudflare THEN S_DisallowCloudflare ELSE <<>>)
        \o S_newline
        \o S_Sitemap \o sitemapUrl(options)

generateRobotsTxtContent(options) ==
    IF options.robots = RobotsFalse THEN <<>> ELSE trim(robotsFile(options))

(***************************************************************************)
(* The recursive walker of generateSitemap (the earlier entry point), in   *)
(* its two page-matching strategies: the directory marker +Page.<ext> and  *)
(* the suffix marker <name>+Page.<ext>.                                    *)
(***************************************************************************)
lastDot(name) ==
    LET dots == {i \in 1..Len(name) : name[i] = "."}
    IN  IF dots = {} THEN 0 ELSE CHOOSE i \in dots : \A j \in dots : j <= i

\* name.match(/^(.*)\+Page\.[^.]+$/): the dot of "+Page." is the last dot of the name
matchesSuffixMarker(name) ==
    LET d == lastDot(name)
    IN  d >= Len(S_PagePrefix) /\ d < Len(name)
        /\ SubSeq(name, d - Len(S_PagePrefix) + 1, d) = S_PagePrefix

\* match[1] of the suffix marker
pageNameOf(name) == SubSeq(name, 1, lastDot(name) - Len(S_PagePrefix))

\* name.match(/^\+Page\.[^.]+$/)
matchesDirectoryMarker(name) == matchesSuffixMarker(name) /\ pageNameOf(name) = <<>>

ignoredDirectoryLog(path) ==
    [text |-> "Ignored directory", paths |-> <<path>>, resolution |-> ""]

\* `${baseUrl}/${routePath}`.replace(/\/+/g, '/')
walkerLoc(baseUrl, routePath) == collapseSlashes(stringOf(baseUrl) \o S_slash \o routePath)

\* the entry the walker pushes for a page file of directory dir
walkerEntry(options, dir, name, routeSegments) ==
    LET joined == join(routeSegments, S_slash)
        routePath == IF joined = S_index THEN <<>> ELSE joined
    IN  [loc |-> walkerLoc(options.baseUrl, routePath),
         lastmod |-> getLastModifiedDate(dir \o S_slash \o name),
         changefreq |-> options.defaultChangefreq,
         priority |-> options.defaultPriority]

\* the walker's result with nothing found, dir read
walkerRead(dir) == [entries |-> <<>>, warned |-> <<>>, read |-> {dir}, matched |-> {}]

\* the walker's handling of one file item
walkerFile(options, suffixMarker, dir, item, currentRouteSegments, ignorePath, acc) ==
    LET isPage == IF suffixMarker THEN matchesSuffixMarker(item.name)
                  ELSE matchesDirectoryMarker(item.name)
        pageName == IF suffixMarker THEN pageNameOf(item.name) ELSE <<>>
        filePath == dir \o S_slash \o item.name
    IN  IF ~isPage THEN acc
        ELSE IF ignorePath \/ (pageName # <<>> /\ startsWith(pageName, <<"@">>))
             THEN [acc EXCEPT !.warned = Append(acc.warned, ssgWarning(filePath)),
                              !.matched = acc.matched \cup {filePath}]
             ELSE [acc EXCEPT
                     !.entries = Append(acc.entries,
                         walkerEntry(options, dir, item.name,
                             IF pageName # <<>> THEN Append(currentRouteSegments, pageName)
                             ELSE currentRouteSegments)),
                     !.warned = acc.warned \o statWarningsOf(<<filePath>>),
                     !.matched = acc.matched \cup {filePath}]

RECURSIVE walk(_, _, _, _, _, _)
\* getSitemapEntries(dir, currentRouteSegments, ignorePath) of generateSitemap; items
\* holds every Dirent of the tree, and fs.readdir(dir) returns those whose parent is dir
walk(options, suffixMarker, items, dir, currentRouteSegments, ignorePath) ==
    LET here == SelectSeq(items, LAMBDA e : e.parentPath = dir)
        loop[i \in 0..Len(here)] ==
            IF i = 0 THEN walkerRead(dir)
            ELSE LET item == here[i]
                     acc == loop[i - 1]
                 IN  IF item.isDirectory
                     THEN IF startsWith(item.name, <<"_">>) THEN acc
                          ELSE LET isIgnoredDir == startsWith(item.name, <<"@">>)
                                   newIgnorePath == ignorePath \/ isIgnoredDir
                                   keeps == ~isIgnoredDir /\ ~isParenthesized(item.name)
                                   newRouteSegments ==
                                       IF keeps THEN Append(currentRouteSegments, item.name)
                                       ELSE currentRouteSegments
                                   said == IF ~keeps /\ options.debug.printIgnored
                                           THEN <<ignoredDirectoryLog(dir \o S_slash \o item.name)>>
                                           ELSE <<>>
                                   sub == walk(options, suffixMarker, items,
                                               dir \o S_slash \o item.name,
                                               newRouteSegments, newIgnorePath)
                               IN  [entries |-> acc.entries \o sub.entries,
                                    warned |-> acc.warned \o said \o sub.warned,
                                    read |-> acc.read \cup sub.read,
                                    matched |-> acc.matched \cup sub.matched]
                     ELSE walkerFile(options, suffixMarker, dir, item, currentRouteSegments,
                                     ignorePath, acc)
    IN  loop[Len(here)]

\* generateSitemap(options) up to the list it serializes: custom entries are pushed as they are
sitemapOf(options, walked, entries) ==
    [entries |-> entries, content |-> xmlOf(entries), warned |-> walked.warned,
     logged |-> IF options.debug.printRoutes
                THEN [i \in 1..Len(entries) |-> routeLog(entries[i])] ELSE <<>>,
     read |-> walked.read, matched |-> walked.matched]

\* the walker's entries followed by the custom entries
sitemapOfWalk(options, walked) ==
    sitemapOf(options, walked, walked.entries \o options.customEntries)

generateSitemap(options, suffixMarker, rootDir, items) ==
    sitemapOfWalk(options, walk(options, suffixMarker, items, rootDir, <<>>, FALSE))

(***************************************************************************)
(* The walker of the generator that sorts entries: it records every        *)
(* location it publishes in the map existingLocations, which the loop over *)
(* the custom entries shares, drops a 'pages' segment of a domain-driven   *)
(* tree, and hands the final list to sortSitemapEntries.                   *)
(***************************************************************************)
\* PathUtils.normalizeUrl
normalizeUrl(baseUrl, path) == collapseSlashes(stringOf(baseUrl) \o S_slash \o path)

RECURSIVE splitOnFrom(_, _, _, _)
\* s.split(sep) for a separator of several characters
splitOnFrom(s, sep, cur, acc) ==
    IF s = <<>> THEN Append(acc, cur)
    ELSE IF startsWith(s, sep) THEN splitOnFrom(substring(s, Len(sep)), sep, <<>>, Append(acc, cur))
    ELSE splitOnFrom(Tail(s), sep, Append(cur, Head(s)), acc)

\* PathUtils.extractRelativePath: fullPath.split('pages/')[1] || fullPath
extractRelativePath(fullPath) ==
    LET parts == splitOnFrom(fullPath, S_pages \o S_slash, <<>>, <<>>)
    IN  IF Len(parts) >= 2 /\ parts[2] # <<>> THEN parts[2] ELSE fullPath

RECURSIVE fixDomainDrivenPath(_)
\* PathUtils.fixDomainDrivenPath: path.replace(/\/pages\//g, '/')
fixDomainDrivenPath(path) ==
    IF path = <<>> THEN path
    ELSE IF startsWith(path, S_slash \o S_pages \o S_slash)
         THEN S_slash \o fixDomainDrivenPath(substring(path, Len(S_pages) + 2))
         ELSE <<Head(path)>> \o fixDomainDrivenPath(Tail(path))

\* DuplicateHandler.reportDuplicate
reportDuplicate(loc, currentPath, existingPath) ==
    [text |-> "Duplicate URL", paths |-> <<currentPath, existingPath>>, resolution |-> loc]

ignoredSegmentLog(path) == [text |-> "Ignored segment", paths |-> <<path>>, resolution |-> ""]

\* Map.prototype.has, .get and .set on a map held as a set of [loc, path] pairs
mapHas(map, loc) == \E e \in map : e.loc = loc

mapGet(map, loc) == (CHOOSE e \in map : e.loc = loc).path

mapSet(map, loc, path) == {e \in map : e.loc # loc} \cup {[loc |-> loc, path |-> path]}

\* EntryBuilder.createEntry
createEntry(loc, lastmod, defaultChangefreq, defaultPriority) ==
    [loc |-> loc, lastmod |-> lastmod, changefreq |-> defaultChangefreq,
     priority |-> defaultPriority]

\* the route segments below a directory item
newRouteSegmentsOf(name, currentRouteSegments, isDomainDrivenPages) ==
    IF name = S_index THEN currentRouteSegments
    ELSE IF name = S_pages /\ ~isDomainDrivenPages THEN currentRouteSegments
    ELSE IF startsWith(name, <<"@">>) THEN currentRouteSegments
    ELSE IF isParenthesized(name) THEN currentRouteSegments
    ELSE Append(currentRouteSegments, name)

\* the location of a page file of a directory with these route segments
locOfRoute(options, currentRouteSegments, isDomainDrivenPages) ==
    LET joined == join(currentRouteSegments, S_slash)
        routePath == IF joined = S_index THEN <<>> ELSE joined
    IN  normalizeUrl(options.baseUrl,
                     IF isDomainDrivenPages THEN fixDomainDrivenPath(routePath) ELSE routePath)

\* the walker's handling of a page file located at loc
collectPage(options, dir, filePath, loc, ignorePath, acc) ==
    IF ignorePath
    THEN [acc EXCEPT !.warned = Append(acc.warned, ssgWarning(filePath)),
                     !.matched = acc.matched \cup {filePath}]
    ELSE IF mapHas(acc.existingLocations, loc)
    THEN [acc EXCEPT
            !.warned = Append(acc.warned,
                reportDuplicate(loc, extractRelativePath(dir),
                    extractRelativePath(mapGet(acc.existingLocations, loc)))),
            !.matched = acc.matched \cup {filePath}]
    ELSE [acc EXCEPT
            !.existingLocations = mapSet(acc.existingLocations, loc, filePath),
            !.entries = Append(acc.entries,
                createEntry(loc, getLastModifiedDate(filePath), options.defaultChangefreq,
                            options.defaultPriority)),
            !.warned = acc.warned \o statWarningsOf(<<filePath>>),
            !.matched = acc.matched \cup {filePath}]

\* the walker's result after the recursive call on a directory item returned sub
collectedBelow(acc, said, sub) ==
    [entries |-> acc.entries \o sub.entries,
     warned |-> acc.warned \o said \o sub.warned,
     read |-> acc.read \cup sub.read,
     matched |-> acc.matched \cup sub.matched,
     existingLocations |-> sub.existingLocations]

RECURSIVE collect(_, _, _, _, _, _, _)
\* getSitemapEntries(options, dir, currentRouteSegments, ignorePath, isDomainDrivenPages,
\* existingLocations) of this generator; items holds every Dirent of the tree
collect(options, items, dir, currentRouteSegments, ignorePath, isDomainDrivenPages, existingLocations) ==
    LET here == SelectSeq(items, LAMBDA e : e.parentPath = dir)
        parts == split(dir, "/")
        isDomainPagesDir == parts[Len(parts)] = S_pages
        newIsDomainDrivenPages == isDomainDrivenPages \/ isDomainPagesDir
        loop[i \in 0..Len(here)] ==
            IF i = 0
            THEN [entries |-> <<>>, warned |-> <<>>, read |-> {dir}, matched |-> {},
                  existingLocations |-> existingLocations]
            ELSE LET item == here[i]
                     acc == loop[i - 1]
                 IN  IF item.isDirectory
                     THEN IF startsWith(item.name, <<"_">>) THEN acc
                          ELSE collectedBelow(acc,
                                  IF startsWith(item.name, <<"@">>) /\ options.debug.printIgnored
                                  THEN <<ignoredSegmentLog(dir \o S_slash \o item.name)>>
                                  ELSE <<>>,
                                  collect(options, items, dir \o S_slash \o item.name,
                                      newRouteSegmentsOf(item.name, currentRouteSegments,
                                                         isDomainDrivenPages),
                                      ignorePath \/ startsWith(item.name, <<"@">>),
                                      newIsDomainDrivenPages, acc.existingLocations))
                     ELSE IF matchesDirectoryMarker(item.name)
                          THEN collectPage(options, dir, dir \o S_slash \o item.name,
                                   locOfRoute(options, currentRouteSegments, isDomainDrivenPages),
                                   ignorePath, acc)
                          ELSE acc
    IN  loop[Len(here)]

\* one turn of the loop over customEntries, on the shared map
sharedCustomStep(acc, entry) ==
    IF mapHas(acc.existingLocations, entry.loc)
    THEN [acc EXCEPT !.warned = Append(acc.warned, customDuplicateWarning(entry.loc))]
    ELSE [acc EXCEPT !.existingLocations =
                         mapSet(acc.existingLocations, entry.loc, <<"custom entry">>),
                     !.entries = Append(acc.entries, entry)]

\* the loop over customEntries, on top of what the walker collected
mergeIntoCollected(options, walked) ==
    LET merge[i \in 0..Len(options.customEntries)] ==
            IF i = 0 THEN walked ELSE sharedCustomStep(merge[i - 1], options.customEntries[i])
    IN  merge[Len(options.customEntries)]

\* the result of this generator once the list has been merged and sorted
sortedContentOf(options, walked, merged, sortedEntries) ==
    [entries |-> sortedEntries, content |-> xmlOf(sortedEntries), warned |-> merged.warned,
     logged |-> IF options.debug.printRoutes
                THEN [i \in 1..Len(sortedEntries) |-> routeLog(sortedEntries[i])] ELSE <<>>,
     discovered |-> walked.entries, read |-> walked.read, matched |-> walked.matched]

sortedContentOfMerged(options, walked, merged) ==
    sortedContentOf(options, walked, merged, sortSitemapEntries(merged.entries))

sortedContentOfWalk(options, walked) ==
    sortedContentOfMerged(options, walked, mergeIntoCollected(options, walked))

\* generateSitemapContent(options) of this generator
generateSortedSitemapContent(options, rootDir, items) ==
    sortedContentOfWalk(options, collect(options, items, rootDir, <<>>, FALSE, FALSE, {}))

(***************************************************************************)
(* The inputs of the model: pages trees, options.                          *)
(***************************************************************************)
SegNames == {S_a, S_index, S_pages, S_group, S_private, S_dynamic}

\* every directory of depth at most n below the scan root
dirsUpTo(n) == UNION {[1..k -> SegNames] : k \in 0..n}

\* the scan root and its immediate subdirectories
shallowDirs == {<<>>} \cup {<<s>> : s \in SegNames}

\* a tree with one directory-marker page, any directory up to MaxDirDepth deep
DeepTrees == {{[dir |-> d, name |-> S_PageTsx]} : d \in dirsUpTo(MaxDirDepth)}

\* a tree with one suffix-marker page, at most one directory deep
SuffixTrees == {{[dir |-> d, name |-> n]} : d \in shallowDirs, n \in {S_aPageTsx, S_indexPageTsx}}

\* the directory-marker page files at most one directory deep
ShallowFiles == {[dir |-> d, name |-> S_PageTsx] : d \in shallowDirs}

\* a tree of at most MaxPages files, each at most one directory deep
ShallowTrees == {t \in SUBSET ShallowFiles : Cardinality(t) <= MaxPages}

\* more page files: a second page file of the scan root, and two directories that
\* resolve to the URL of directory a
ClashFiles ==
    ShallowFiles \cup {[dir |-> <<>>, name |-> S_PageClientTsx],
                       [dir |-> <<S_a, S_index>>, name |-> S_PageTsx],
                       [dir |-> <<S_group, S_a>>, name |-> S_PageTsx]}

\* a tree of at most MaxPages of these files
ClashTrees == {t \in SUBSET ClashFiles : Cardinality(t) <= MaxPages}

\* the trees of one page
Trees == DeepTrees \cup SuffixTrees

BaseUrls == {S_httpX, S_httpXslash}

Policies == {"ignore", "remove", "error"}

customEntry(loc) ==
    [loc |-> loc, lastmod |-> Undefined, changefreq |-> "monthly", priority |-> "0.8"]

\* custom entries: the location of the root page under baseUrl, and one no page has
customLocs(baseUrl) == {baseUrl \o S_slash, baseUrl \o <<"/", "z">>}

customLists(baseUrl) ==
    UNION {[1..k -> {customEntry(l) : l \in customLocs(baseUrl)}] : k \in 0..MaxCustom}

\* resolve(process.cwd(), pagesDir): the scan root
resolvedPagesDir(opts) == S_cwd \o S_slash \o opts.pagesDir

\* defaultOptions.baseUrl
defaultBaseUrl == S_httpLocalhost3000

\* defaultOptions.clashingPathsResolution
defaultClashingPathsResolution == "ignore"

\* defaultOptions.robots
defaultRobots == [userAgent |-> S_star, disallow |-> [cloudflare |-> TRUE]]

\* an options object with every key the model uses: base URL b, policy p, the two
\* debug flags, custom entries c
optionsOf(b, p, pr, pi, c) ==
    [pagesDir |-> S_pages, baseUrl |-> b, filename |-> S_sitemapXml,
     clashingPathsResolution |-> p,
     customEntries |-> c, defaultChangefreq |-> "weekly", defaultPriority |-> "0.5",
     robots |-> defaultRobots,
     debug |-> [printRoutes |-> pr, printIgnored |-> pi]]

\* mergedOptions: the caller's options over the defaults; `robots: false` is kept
mergedOptions(opts) ==
    [opts EXCEPT
        !.baseUrl = spread(defaultBaseUrl, @),
        !.clashingPathsResolution = IF @ = "missing" THEN defaultClashingPathsResolution ELSE @,
        !.robots = IF @ = RobotsFalse THEN RobotsFalse
                   ELSE IF @ = Missing THEN defaultRobots
                   ELSE [userAgent |-> spread(S_star, @.userAgent), disallow |-> @.disallow]]

\* the options of the build runs: no custom entries
Options ==
    {optionsOf(b, p, pr, pi, <<>>) :
        b \in BaseUrls, p \in Policies, pr \in BOOLEAN, pi \in BOOLEAN}

\* the options of the build runs on trees of several pages: one base URL
ClashOptions == {o \in Options : o.baseUrl = S_httpX}

\* the options of the runs with custom entries: one base URL
CustomOptions ==
    {optionsOf(S_httpX, p, pr, FALSE, c) :
        p \in Policies, pr \in BOOLEAN, c \in customLists(S_httpX)}

(***************************************************************************)
(* The rest of the state: the pages tree, the plugin's merged options,     *)
(* what the last handler did, the sitemap file on disk, the dev server's   *)
(* in-memory sitemap and robots.txt, the caller's options and the build    *)
(* environment, the last answer of the middleware, a call of a function on *)
(* its own, the generation passes in flight, and the file of the pending   *)
(* change notification.                                                    *)
(***************************************************************************)
VARIABLES tree, options, last, disk, sitemapContent, server, changes, notified,
          supplied, env, robotsContent, robotsDisk, response, call, passes, file

vars == <<tree, options, last, disk, sitemapContent, server, changes, notified,
          supplied, env, robotsContent, robotsDisk, response, call, fs, passes, file>>

\* no file / the empty string
NoContent == [urlset |-> <<>>, absent |-> TRUE]

\* no robots.txt in the output directory
NoFile == [absent |-> TRUE, content |-> <<>>]

\* robots.txt as writeFile left it
writtenFile(content) == [absent |-> FALSE, content |-> content]

\* the middleware has not been asked anything
NoResponse == [url |-> <<>>, by |-> "none", contentType |-> "", body |-> [content |-> <<>>]]

\* no function of the module has been called on its own
NoCall == [fn |-> "none", args |-> <<>>, returned |-> <<>>]

NoRun ==
    [handler |-> "none", threw |-> FALSE, thrown |-> EmptyMessage, warned |-> <<>>,
     logged |-> <<>>, entries |-> <<>>, discovered |-> <<>>, classified |-> <<>>,
     groups |-> <<>>, read |-> {}, matched |-> {}]

\* what fs.readdir rejects with for a directory it cannot read
readdirError ==
    [text |-> "EACCES: permission denied, scandir", paths |-> <<>>, resolution |-> ""]

\* the pass of handler h rejected with error before it produced anything
abortedRun(h, error) == [NoRun EXCEPT !.handler = h, !.threw = TRUE, !.thrown = error]

\* closeBundle returned before generating anything
skippedRun(h) == [NoRun EXCEPT !.handler = h]

\* "baseUrl" must be defined in production
baseUrlMessage ==
    [text |-> "\"baseUrl\" must be defined in production", paths |-> <<>>, resolution |-> ""]

\* closeBundle threw before generating anything
failedRun(h, message) ==
    [NoRun EXCEPT !.handler = h, !.threw = TRUE, !.thrown = message, !.warned = <<message>>]

\* a production build of the client bundle
ClientBuild == [NODE_ENV |-> "production", consumer |-> "client"]

\* what the plugin holds before any handler has run, for a caller who supplies every
\* option
Constructed ==
    /\ supplied = options
    /\ env = ClientBuild
    /\ last = NoRun
    /\ disk = NoContent
    /\ robotsDisk = NoFile
    /\ sitemapContent = NoContent
    /\ robotsContent = <<>>
    /\ response = NoResponse
    /\ server = "off"
    /\ changes = 0
    /\ notified = FALSE
    /\ fs = NoFaults
    /\ passes = NoPasses
    /\ file = <<>>

\* the directories readdir(rootDir, {recursive: true}) enumerates: all of them
recursiveRead(rootDir, t) == {pathOf(rootDir, d) : d \in dirsOf(t) \cup {<<>>}}

\* the record of one pass of the current generator run by handler h
runOf(h, rootDir, t, items, g) ==
    [handler |-> h, threw |-> g.threw, thrown |-> g.thrown, warned |-> g.warned,
     logged |-> g.logged, entries |-> g.entries, discovered |-> g.pass.entries,
     classified |-> g.pass.classified, groups |-> g.pass.groups,
     read |-> recursiveRead(rootDir, t),
     matched |-> {e.parentPath \o S_slash \o e.name :
                    e \in {items[i] : i \in {j \in 1..Len(items) : isIndexable(items[j])}}}]

\* a pass that takes a directory readdir cannot read for an empty one
currentRunSkippingUnreadable(h, opts, t, items) ==
    runOf(h, resolvedPagesDir(opts), t, items,
          generateSitemapContent(opts, resolvedPagesDir(opts), items))

\* a pass of the current generator: readdir rejects when a directory of the tree
\* cannot be read
currentRun(h, opts, t, items) ==
    IF recursiveRead(resolvedPagesDir(opts), t) \cap fs.unreadable # {}
    THEN abortedRun(h, readdirError)
    ELSE runOf(h, resolvedPagesDir(opts), t, items,
               generateSitemapContent(opts, resolvedPagesDir(opts), items))

\* the record of one pass of the recursive walker run by handler h
runOfWalker(h, opts, g) ==
    IF g.read \cap fs.unreadable # {} THEN abortedRun(h, readdirError)
    ELSE
    [handler |-> h, threw |-> FALSE, thrown |-> EmptyMessage, warned |-> g.warned,
     logged |-> g.logged, entries |-> g.entries,
     discovered |-> SubSeq(g.entries, 1, Len(g.entries) - Len(opts.customEntries)),
     classified |-> <<>>, groups |-> <<>>, read |-> g.read, matched |-> g.matched]

walkerRun(h, opts, suffixMarker, items) ==
    runOfWalker(h, opts, generateSitemap(opts, suffixMarker, resolvedPagesDir(opts), items))

\* "baseUrl" must be defined in production; will default to the default base URL
defaultBaseUrlWarning ==
    [text |-> "\"baseUrl\" must be defined in production; will default",
     paths |-> <<>>, resolution |-> ""]

\* the record of one pass of the sorting generator run by handler h
runOfSorted(h, said, g) ==
    IF g.read \cap fs.unreadable # {} THEN abortedRun(h, readdirError)
    ELSE
    [handler |-> h, threw |-> FALSE, thrown |-> EmptyMessage, warned |-> said \o g.warned,
     logged |-> g.logged, entries |-> g.entries, discovered |-> g.discovered,
     classified |-> <<>>, groups |-> <<>>, read |-> g.read, matched |-> g.matched]

sortedRun(h, opts, said, items) ==
    runOfSorted(h, said, generateSortedSitemapContent(opts, resolvedPagesDir(opts), items))

Init ==
    /\ \/ tree \in Trees /\ options \in Options
       \/ tree \in ClashTrees /\ options \in ClashOptions
    /\ Constructed
    /\ call = NoCall

\* closeBundle of the current plugin: nothing for a bundle that is not the client's,
\* a fatal error in production without a base URL, else writeSitemapToDisk, which
\* writes only if generateSitemapContent returned, then writeRobotsTxtToDisk unless
\* robots is false
CloseBundle ==
    /\ last.handler = "none"
    /\ IF env.consumer # "client"
       THEN /\ last' = skippedRun("closeBundle")
            /\ UNCHANGED <<disk, robotsDisk>>
       ELSE IF env.NODE_ENV = "production" /\ readOption(supplied.baseUrl) = UndefinedString
       THEN /\ last' = failedRun("closeBundle", baseUrlMessage)
            /\ UNCHANGED <<disk, robotsDisk>>
       ELSE /\ \E items \in enumerations(resolvedPagesDir(options), tree) :
                 last' = currentRun("closeBundle", options, tree, items)
            /\ disk' = IF last'.threw THEN disk ELSE xmlOf(last'.entries)
            /\ robotsDisk' = IF last'.threw \/ options.robots = RobotsFalse THEN robotsDisk
                             ELSE writtenFile(generateRobotsTxtContent(options))
    /\ UNCHANGED <<tree, options, sitemapContent, server, changes, notified>>
    /\ UNCHANGED <<fs, passes, file, supplied, env, robotsContent, response, call>>

\* closeBundle of the earlier plugin (directory marker): generateSitemap and
\* generateRobotsTxt write their files
WalkerCloseBundle ==
    /\ last.handler = "none"
    /\ \E items \in enumerations(resolvedPagesDir(options), tree) :
         last' = walkerRun("walkerCloseBundle", options, FALSE, items)
    /\ disk' = IF last'.threw THEN disk ELSE xmlOf(last'.entries)
    /\ robotsDisk' = IF last'.threw THEN robotsDisk
                     ELSE writtenFile(generateRobotsTxtContent(options))
    /\ UNCHANGED <<tree, options, sitemapContent, server, changes, notified>>
    /\ UNCHANGED <<fs, passes, file, supplied, env, robotsContent, response, call>>

\* closeBundle of the earlier plugin (suffix marker)
SuffixCloseBundle ==
    /\ last.handler = "none"
    /\ \E items \in enumerations(resolvedPagesDir(options), tree) :
         last' = walkerRun("suffixCloseBundle", options, TRUE, items)
    /\ disk' = IF last'.threw THEN disk ELSE xmlOf(last'.entries)
    /\ robotsDisk' = IF last'.threw THEN robotsDisk
                     ELSE writtenFile(generateRobotsTxtContent(options))
    /\ UNCHANGED <<tree, options, sitemapContent, server, changes, notified>>
    /\ UNCHANGED <<fs, passes, file, supplied, env, robotsContent, response, call>>

\* closeBundle of the plugin of the sorting generator: for the client bundle only, a
\* warning when the base URL is the default one in production, then writeSitemapToDisk
\* and writeRobotsTxtToDisk
SortedCloseBundle ==
    /\ last.handler = "none"
    /\ IF env.consumer = "client"
       THEN /\ \E items \in enumerations(resolvedPagesDir(options), tree) :
                 last' = sortedRun("sortedCloseBundle", options,
                                   IF env.NODE_ENV = "production" /\ options.baseUrl = defaultBaseUrl
                                   THEN <<defaultBaseUrlWarning>> ELSE <<>>,
                                   items)
            /\ disk' = IF last'.threw THEN disk ELSE xmlOf(last'.entries)
            /\ robotsDisk' = IF last'.threw THEN robotsDisk
                             ELSE writtenFile(generateRobotsTxtContent(options))
       ELSE /\ last' = skippedRun("sortedCloseBundle")
            /\ UNCHANGED <<disk, robotsDisk>>
    /\ UNCHANGED <<tree, options, sitemapContent, server, changes, notified>>
    /\ UNCHANGED <<fs, passes, file, supplied, env, robotsContent, response, call>>

Next == CloseBundle \/ WalkerCloseBundle \/ SuffixCloseBundle \/ SortedCloseBundle

Spec == Init /\ [][Next]_vars

(***************************************************************************)
(* The build with caller-supplied custom entries.                          *)
(***************************************************************************)
InitCustom ==
    /\ tree \in ShallowTrees
    /\ options \in CustomOptions
    /\ Constructed
    /\ call = NoCall

NextCustom == CloseBundle \/ WalkerCloseBundle \/ SortedCloseBundle

SpecCustom == InitCustom /\ [][NextCustom]_vars

(***************************************************************************)
(* The dev server: configureServer fills the in-memory sitemap before the  *)
(* middleware is installed, and handleHotUpdate refills it after a change  *)
(* under the pages directory.  updateContent assigns sitemapContent only   *)
(* when generateSitemapContent returned.                                   *)
(***************************************************************************)
\* the options of the dev runs: one base URL, no custom entries
DevOptions == {optionsOf(S_httpX, p, pr, FALSE, <<>>) : p \in Policies, pr \in BOOLEAN}

InitDev ==
    /\ tree \in ShallowTrees
    /\ options \in DevOptions
    /\ Constructed
    /\ call = NoCall

\* updateContent() swallowing the error and publishing the empty result
updateContentSwallowing(h) ==
    /\ \E items \in enumerations(resolvedPagesDir(options), tree) : last' = currentRun(h, options, tree, items)
    /\ sitemapContent' = xmlOf(last'.entries)
    /\ robotsContent' = generateRobotsTxtContent(options)

\* updateContent() run by handler h
updateContent(h) ==
    /\ \E items \in enumerations(resolvedPagesDir(options), tree) : last' = currentRun(h, options, tree, items)
    /\ sitemapContent' = IF last'.threw THEN sitemapContent ELSE xmlOf(last'.entries)
    /\ robotsContent' = IF last'.threw THEN robotsContent
                        ELSE generateRobotsTxtContent(options)

\* configureServer: the server serves once the first updateContent has returned
ConfigureServer ==
    /\ server = "off"
    /\ last.handler = "none"
    /\ updateContent("configureServer")
    /\ server' = IF last'.threw THEN "failed" ELSE "serving"
    /\ UNCHANGED <<tree, options, disk, changes, notified>>
    /\ UNCHANGED <<fs, passes, file, supplied, env, robotsDisk, response, call>>

\* a page file is added to or removed from the pages tree while the server runs, and
\* the watcher has a notification for it
FsChange ==
    /\ server = "serving"
    /\ changes < MaxChanges
    /\ ~notified
    /\ \E f \in ShallowFiles :
         /\ tree' = IF f \in tree THEN tree \ {f} ELSE tree \cup {f}
         /\ Cardinality(tree') <= MaxPages
         /\ file' = pathOf(resolvedPagesDir(options), f.dir) \o S_slash \o f.name
    /\ changes' = changes + 1
    /\ notified' = TRUE
    /\ UNCHANGED <<options, last, disk, sitemapContent, server>>
    /\ UNCHANGED <<fs, passes, supplied, env, robotsContent, robotsDisk, response, call>>

\* handleHotUpdate for the file of the notification: updateContent when its path
\* includes 'pages', nothing otherwise
HandleHotUpdate ==
    /\ server = "serving"
    /\ notified
    /\ IF includes(file, S_pages) THEN updateContent("handleHotUpdate")
       ELSE UNCHANGED <<last, sitemapContent, robotsContent>>
    /\ notified' = FALSE
    /\ file' = <<>>
    /\ UNCHANGED <<tree, options, disk, server, changes>>
    /\ UNCHANGED <<fs, passes, supplied, env, robotsDisk, response, call>>

NextDev == ConfigureServer \/ FsChange \/ HandleHotUpdate \/ CloseBundle

SpecDev == InitDev /\ [][NextDev]_vars

(***************************************************************************)
(* The plugin under every configuration: the caller leaves out or sets the *)
(* base URL and the robots option, the build runs in production or in      *)
(* development mode for the client or the server bundle, and the dev       *)
(* server answers requests through the middleware configureServer installs.*)
(***************************************************************************)
\* what the caller passes as options.robots
SuppliedRobots ==
    {Missing, RobotsFalse,
     [userAgent |-> MissingString, disallow |-> [cloudflare |-> FALSE]],
     [userAgent |-> S_bot, disallow |-> [cloudflare |-> TRUE]]}

\* what the caller passes as options.baseUrl
SuppliedBaseUrls == {MissingString, UndefinedString} \cup BaseUrls

\* what the caller passes as options.clashingPathsResolution: no key, undefined, or a
\* policy other than the default one
SuppliedPolicies == {"missing", "undefined", "remove"}

SuppliedOptions ==
    {[optionsOf(b, p, FALSE, FALSE, <<>>) EXCEPT !.robots = r] :
        b \in SuppliedBaseUrls, p \in SuppliedPolicies, r \in SuppliedRobots}

Environments ==
    [NODE_ENV : {"production", "development"}, consumer : {"client", "server"}]

\* the trees of at most one page
SmallTrees == {t \in ShallowTrees : Cardinality(t) <= 1}

InitConfig ==
    /\ tree \in SmallTrees
    /\ supplied \in SuppliedOptions
    /\ options = mergedOptions(supplied)
    /\ env \in Environments
    /\ last = NoRun
    /\ disk = NoContent
    /\ robotsDisk = NoFile
    /\ sitemapContent = NoContent
    /\ robotsContent = <<>>
    /\ response = NoResponse
    /\ call = NoCall
    /\ server = "off"
    /\ changes = 0
    /\ notified = FALSE
    /\ fs = NoFaults
    /\ passes = NoPasses
    /\ file = <<>>

\* the URLs a client asks the dev server for
RequestUrls == {S_slash \o S_sitemapXml, S_slash \o S_robotsTxt, S_slash \o S_a}

\* a middleware that answers /robots.txt whatever the robots option is
respondWithRobots(opts, url, sitemap, robots) ==
    IF url = S_slash \o opts.filename
    THEN [url |-> url, by |-> "sitemap", contentType |-> "application/xml",
          body |-> [content |-> sitemap]]
    ELSE IF url = S_slash \o S_robotsTxt
    THEN [url |-> url, by |-> "robots", contentType |-> "text/plain",
          body |-> [content |-> robots]]
    ELSE [url |-> url, by |-> "next", contentType |-> "", body |-> [content |-> <<>>]]

\* the middleware: the sitemap, then robots.txt unless robots is false, else next()
respond(opts, url, sitemap, robots) ==
    IF url = S_slash \o opts.filename
    THEN [url |-> url, by |-> "sitemap", contentType |-> "application/xml",
          body |-> [content |-> sitemap]]
    ELSE IF opts.robots # RobotsFalse /\ url = S_slash \o S_robotsTxt
    THEN [url |-> url, by |-> "robots", contentType |-> "text/plain",
          body |-> [content |-> robots]]
    ELSE [url |-> url, by |-> "next", contentType |-> "", body |-> [content |-> <<>>]]

\* a request reaches the middleware of the running dev server
Request ==
    /\ server = "serving"
    /\ response = NoResponse
    /\ \E url \in RequestUrls : response' = respond(options, url, sitemapContent, robotsContent)
    /\ UNCHANGED <<tree, options, last, disk, sitemapContent, server, changes, notified>>
    /\ UNCHANGED <<fs, passes, file, supplied, env, robotsContent, robotsDisk, call>>

NextConfig == ConfigureServer \/ Request \/ CloseBundle

SpecConfig == InitConfig /\ [][NextConfig]_vars

(***************************************************************************)
(* The two sorters on their own: a list of paths, in some order, is handed *)
(* to sortSitemapEntries as entries and to sort(resolvedPagesSorter) as    *)
(* the pages of those directories.                                         *)
(***************************************************************************)
S_alpha == <<"a", "l", "p", "h", "a">>
S_zebra == <<"z", "e", "b", "r", "a">>

SortPaths ==
    {S_slash, S_slash \o S_dynamic, S_slash \o S_alpha, S_slash \o S_zebra,
     S_slash \o S_alpha \o S_slash \o S_dynamic, S_slash \o S_alpha \o S_slash \o S_zebra,
     S_slash \o S_index, S_slash \o S_alpha \o S_slash \o S_index}

\* the lists of at most MaxSorted distinct paths
SortInputs ==
    UNION {{l \in [1..n -> SortPaths] : \A i, j \in 1..n : l[i] = l[j] => i = j} :
             n \in 1..MaxSorted}

\* the entries located at the paths
entriesAt(paths) == [i \in 1..Len(paths) |-> customEntry(paths[i])]

\* the Dirents of one page file in each of the directories
pageDirentsAt(paths) ==
    [i \in 1..Len(paths) |->
        [parentPath |-> IF paths[i] = S_slash THEN S_rootDir ELSE S_rootDir \o paths[i],
         name |-> S_PageTsx, isDirectory |-> FALSE]]

InitSort ==
    /\ tree = {}
    /\ options = optionsOf(S_httpX, "ignore", FALSE, FALSE, <<>>)
    /\ Constructed
    /\ \E paths \in SortInputs : call = [NoCall EXCEPT !.args = paths]

\* the locs handed to sortSitemapEntries are URL paths: no segment is 'index'
isUrlPathList(paths) ==
    \A i \in 1..Len(paths) : \A k \in 1..Len(locSegments(paths[i])) :
        locSegments(paths[i])[k] # S_index

SortSitemapEntries ==
    /\ call.fn = "none"
    /\ isUrlPathList(call.args)
    /\ call' = [call EXCEPT !.fn = "sortSitemapEntries",
                            !.returned = sortSitemapEntries(entriesAt(call.args))]
    /\ UNCHANGED <<tree, options, last, disk, sitemapContent, server, changes, notified>>
    /\ UNCHANGED <<fs, passes, file, supplied, env, robotsContent, robotsDisk, response>>

SortResolvedPages ==
    /\ call.fn = "none"
    /\ call' = [call EXCEPT !.fn = "sort",
                            !.returned = sort(getResolvedPages(S_rootDir, pageDirentsAt(call.args)))]
    /\ UNCHANGED <<tree, options, last, disk, sitemapContent, server, changes, notified>>
    /\ UNCHANGED <<fs, passes, file, supplied, env, robotsContent, robotsDisk, response>>

\* what the comparator of sortSitemapEntries returns for every pair of the entries
comparisonsOfEntries(entries) ==
    [i \in 1..Len(entries) |->
        [j \in 1..Len(entries) |-> sitemapEntriesSorter(entries[i], entries[j])]]

\* what resolvedPagesSorter returns for every pair of the pages
comparisonsOfPages(pages) ==
    [i \in 1..Len(pages) |-> [j \in 1..Len(pages) |-> resolvedPagesSorter(pages[i], pages[j])]]

CompareSitemapEntries ==
    /\ call.fn = "none"
    /\ isUrlPathList(call.args)
    /\ call' = [call EXCEPT !.fn = "sitemapEntriesSorter",
                            !.returned = comparisonsOfEntries(entriesAt(call.args))]
    /\ UNCHANGED <<tree, options, last, disk, sitemapContent, server, changes, notified>>
    /\ UNCHANGED <<fs, passes, file, supplied, env, robotsContent, robotsDisk, response>>

CompareResolvedPages ==
    /\ call.fn = "none"
    /\ call' = [call EXCEPT !.fn = "resolvedPagesSorter",
                            !.returned = comparisonsOfPages(
                                getResolvedPages(S_rootDir, pageDirentsAt(call.args)))]
    /\ UNCHANGED <<tree, options, last, disk, sitemapContent, server, changes, notified>>
    /\ UNCHANGED <<fs, passes, file, supplied, env, robotsContent, robotsDisk, response>>

NextSort ==
    SortSitemapEntries \/ SortResolvedPages \/ CompareSitemapEntries \/ CompareResolvedPages

SpecSort == InitSort /\ [][NextSort]_vars

(***************************************************************************)
(* The current plugin on a file system where a directory of the pages tree *)
(* may become unreadable: the build starts over an output directory that   *)
(* is empty or holds the sitemap of an earlier build, and the dev server   *)
(* regenerates after a change.                                             *)
(***************************************************************************)
\* at most this many files in the tree of a run under faults
MaxFaultPages == 1

FaultTrees == {t \in ShallowTrees : Cardinality(t) <= MaxFaultPages}

FaultOptions == {optionsOf(S_httpX, "ignore", FALSE, FALSE, <<>>)}

\* the sitemap an earlier build of a tree without pages left in the output directory
PreviousSitemap == xmlOf(<<>>)

InitScan ==
    /\ tree \in FaultTrees
    /\ options \in FaultOptions
    /\ supplied = options
    /\ env = ClientBuild
    /\ last = NoRun
    /\ disk \in {NoContent, PreviousSitemap}
    /\ robotsDisk = NoFile
    /\ sitemapContent = NoContent
    /\ robotsContent = <<>>
    /\ response = NoResponse
    /\ call = NoCall
    /\ server = "off"
    /\ changes = 0
    /\ notified = FALSE
    /\ fs = NoFaults
    /\ passes = NoPasses
    /\ file = <<>>

\* a directory of the pages tree loses its read permission
FsFault ==
    /\ fs.unreadable = {}
    /\ \E d \in recursiveRead(resolvedPagesDir(options), tree) : fs' = [fs EXCEPT !.unreadable = {d}]
    /\ UNCHANGED <<tree, options, last, disk, sitemapContent, server, changes, notified>>
    /\ UNCHANGED <<passes, file, supplied, env, robotsContent, robotsDisk, response, call>>

NextScan == FsFault \/ ConfigureServer \/ FsChange \/ HandleHotUpdate \/ CloseBundle

SpecScan == InitScan /\ [][NextScan]_vars

(***************************************************************************)
(* The builds on a file system where stat may fail on a path and where a   *)
(* path may have been modified since the first instant.                    *)
(***************************************************************************)
\* the paths of a tree: its directories and its files
treePaths(rootDir, t) ==
    recursiveRead(rootDir, t) \cup {pathOf(rootDir, f.dir) \o S_slash \o f.name : f \in t}

\* at most one path stat fails on, at most one path modified
fileSystemsOf(rootDir, t) ==
    {[unreadable |-> {}, failing |-> x, modified |-> m] :
        x \in {y \in SUBSET treePaths(rootDir, t) : Cardinality(y) <= 1},
        m \in {y \in SUBSET treePaths(rootDir, t) : Cardinality(y) <= 1}}

\* the trees of the stat runs: one page more than the fault trees, so that the page
\* whose stat fails has a neighbour
StatTrees == {t \in ShallowTrees : Cardinality(t) <= MaxFaultPages + 1}

InitStat ==
    /\ tree \in StatTrees
    /\ options \in FaultOptions
    /\ Constructed
    /\ call = NoCall

\* the state of the file system when the build starts
Mount ==
    /\ last.handler = "none"
    /\ fs = NoFaults
    /\ \E f \in fileSystemsOf(resolvedPagesDir(options), tree) : f # NoFaults /\ fs' = f
    /\ UNCHANGED <<tree, options, last, disk, sitemapContent, server, changes, notified>>
    /\ UNCHANGED <<passes, file, supplied, env, robotsContent, robotsDisk, response, call>>

NextStat == Mount \/ CloseBundle \/ WalkerCloseBundle \/ SortedCloseBundle

SpecStat == InitStat /\ [][NextStat]_vars

(***************************************************************************)
(* The dev server with its awaits: updateContent is asynchronous, so a     *)
(* pass is called, reads the pages tree when readdir answers, and assigns  *)
(* the two contents when generateSitemapContent resolves.  The watcher     *)
(* notifies of added, removed and modified files, handleHotUpdate starts a *)
(* pass without waiting for the passes still running, and the scan root    *)
(* is 'pages' or another directory of the project.                         *)
(***************************************************************************)
MaxPasses == 3

\* the options of the asynchronous runs: pagesDir is the default or 'routes', and a
\* clash of two pages makes the pass reject
AsyncOptions ==
    {[optionsOf(S_httpX, "error", FALSE, FALSE, <<>>) EXCEPT !.pagesDir = d] :
        d \in {S_pages, S_routes}}

\* the page files that come and go while the server runs: the root page and the page
\* of the directory 'pages', which resolve to the same URL
AsyncFiles == {[dir |-> d, name |-> S_PageTsx] : d \in {<<>>, <<S_pages>>}}

InitAsync ==
    /\ tree \in SUBSET AsyncFiles
    /\ options \in AsyncOptions
    /\ Constructed
    /\ call = NoCall

\* updateContent() has been called by handler h and awaits generateSitemapContent
calledPass(h) == [by |-> h, stage |-> "reading", run |-> NoRun]

\* a configureServer that installs the middleware without awaiting updateContent
ConfigureServerCalledNotAwaiting ==
    /\ server = "off"
    /\ passes = <<>>
    /\ passes' = <<calledPass("configureServer")>>
    /\ server' = "serving"
    /\ UNCHANGED <<tree, options, last, disk, sitemapContent, changes, notified>>
    /\ UNCHANGED <<fs, file, supplied, env, robotsContent, robotsDisk, response, call>>

\* configureServer up to its await
ConfigureServerCalled ==
    /\ server = "off"
    /\ passes = <<>>
    /\ passes' = <<calledPass("configureServer")>>
    /\ server' = "starting"
    /\ UNCHANGED <<tree, options, last, disk, sitemapContent, changes, notified>>
    /\ UNCHANGED <<fs, file, supplied, env, robotsContent, robotsDisk, response, call>>

\* the watcher notifies of a page file added to the tree, removed from it, or modified
WatcherNotifies ==
    /\ server = "serving"
    /\ ~notified
    /\ \E f \in AsyncFiles :
         /\ file' = pathOf(resolvedPagesDir(options), f.dir) \o S_slash \o f.name
         /\ \/ f \notin tree /\ tree' = tree \cup {f} /\ fs' = fs
            \/ f \in tree /\ tree' = tree \ {f} /\ fs' = fs
            \/ f \in tree /\ tree' = tree /\ fs' = [fs EXCEPT !.modified = @ \cup {file'}]
    /\ notified' = TRUE
    /\ UNCHANGED <<options, last, disk, sitemapContent, server, changes>>
    /\ UNCHANGED <<passes, supplied, env, robotsContent, robotsDisk, response, call>>

\* handleHotUpdate up to its await: a pass is started when the path includes 'pages'
HotUpdateCalled ==
    /\ server = "serving"
    /\ notified
    /\ Len(passes) < MaxPasses
    /\ passes' = IF includes(file, S_pages) THEN Append(passes, calledPass("handleHotUpdate"))
                 ELSE passes
    /\ notified' = FALSE
    /\ file' = <<>>
    /\ UNCHANGED <<tree, options, last, disk, sitemapContent, server, changes>>
    /\ UNCHANGED <<fs, supplied, env, robotsContent, robotsDisk, response, call>>

\* readdir answers a pass with the tree as it is now, and the pass generates from it
PassReads ==
    /\ \E i \in 1..Len(passes) :
         /\ passes[i].stage = "reading"
         /\ \E items \in enumerations(resolvedPagesDir(options), tree) :
              passes' = [passes EXCEPT ![i].stage = "generated",
                                       ![i].run = currentRun(passes[i].by, options, tree, items)]
    /\ UNCHANGED <<tree, options, last, disk, sitemapContent, server, changes, notified>>
    /\ UNCHANGED <<fs, file, supplied, env, robotsContent, robotsDisk, response, call>>

\* generateSitemapContent resolves or rejects for a pass: updateContent assigns the two
\* contents, and configureServer installs the middleware after its own pass
PassCompletes ==
    /\ \E i \in 1..Len(passes) :
         /\ passes[i].stage = "generated"
         /\ passes' = [passes EXCEPT ![i].stage = "done"]
         /\ last' = passes[i].run
         /\ server' = IF passes[i].by # "configureServer" THEN server
                      ELSE IF last'.threw THEN "failed" ELSE "serving"
    /\ sitemapContent' = IF last'.threw THEN sitemapContent ELSE xmlOf(last'.entries)
    /\ robotsContent' = IF last'.threw THEN robotsContent
                        ELSE generateRobotsTxtContent(options)
    /\ UNCHANGED <<tree, options, disk, changes, notified>>
    /\ UNCHANGED <<fs, file, supplied, env, robotsDisk, response, call>>

NextAsync ==
    ConfigureServerCalled \/ WatcherNotifies \/ HotUpdateCalled \/ PassReads
        \/ PassCompletes \/ Request

SpecAsync == InitAsync /\ [][NextAsync]_vars

(***************************************************************************)
(* Vocabulary of the properties: the page files of the tree, the entry a   *)
(* page file yields, the clash group of a page.                            *)
(***************************************************************************)
ran == last.handler # "none"

byCurrent == last.handler \in {"closeBundle", "configureServer", "handleHotUpdate"}

rangeOf(s) == {s[i] : i \in 1..Len(s)}

\* f is a page file for the handler that ran last
isPageFile(f) ==
    CASE last.handler = "suffixCloseBundle" -> matchesSuffixMarker(f.name)
      [] last.handler \in {"walkerCloseBundle", "sortedCloseBundle"}
            -> matchesDirectoryMarker(f.name)
      [] OTHER -> startsWith(f.name, S_PagePrefix)

\* the page name a suffix marker carries, for the handler that ran last
routeNameOf(f) ==
    IF last.handler = "suffixCloseBundle" /\ pageNameOf(f.name) # <<>>
    THEN <<pageNameOf(f.name)>> ELSE <<>>

\* the path whose modification time the entry of page file f carries
statPathOf(f) ==
    IF byCurrent THEN pathOf(S_rootDir, f.dir)
    ELSE pathOf(S_rootDir, f.dir) \o S_slash \o f.name

\* the path a diagnostic about page file f names
reportPathOf(f) ==
    IF byCurrent THEN substring(pathOf(S_rootDir, f.dir), Len(S_rootDir))
    ELSE pathOf(S_rootDir, f.dir) \o S_slash \o f.name

\* the discovered entries that come from page file f
entriesOf(f) ==
    {i \in 1..Len(last.discovered) : last.discovered[i].lastmod.mtimeOf = statPathOf(f)}

\* the discovered entries published at loc
discoveredAt(loc) == {i \in 1..Len(last.discovered) : last.discovered[i].loc = loc}

\* the segments of a path below the scan root
segmentsBelowRoot(path) == filterBoolean(split(substring(path, Len(S_rootDir)), "/"))

underPrivate(path) == \E seg \in rangeOf(segmentsBelowRoot(path)) : startsWith(seg, <<"_">>)

hasDynamicAncestor(f) == \E k \in 1..Len(f.dir) : startsWith(f.dir[k], <<"@">>)

hasPrivateAncestor(f) == \E k \in 1..Len(f.dir) : startsWith(f.dir[k], <<"_">>)

reportedUnhandled(f) ==
    \E i \in 1..Len(last.warned) :
        /\ last.warned[i].text = "Cannot generate SSG path yet for"
        /\ last.warned[i].paths = <<reportPathOf(f)>>

\* the page files of the tree that the current generator accepts
acceptedPages == {f \in tree : startsWith(f.name, S_PagePrefix) /\ resolve(f.dir).accepted}

\* the accepted pages that resolve to the URL path of f
clashGroup(f) == {g \in acceptedPages : resolve(g.dir).urlPath = resolve(f.dir).urlPath}

clashes(f) == Cardinality(clashGroup(f)) >= 2

hasClash == \E f \in acceptedPages : clashes(f)

locOf(f) == options.baseUrl \o resolve(f.dir).urlPath

\* m comes before every member of group that lies in another directory
isFirstOf(m, group) == \A n \in group : n.dir # m.dir => sorterFrom(m.dir, n.dir, 1) < 0

(***************************************************************************)
(* C1..C10.                                                                *)
(***************************************************************************)
isTransparent(segment) == segment = S_index \/ isParenthesized(segment)

isRootMarker(f) ==
    /\ isPageFile(f)
    /\ \A k \in 1..Len(f.dir) : isTransparent(f.dir[k])
    /\ routeNameOf(f) \in {<<>>, <<S_index>>}

\* C1: a page marker at the scan root, directly or through index and parenthesized
\* segments only, yields one entry whose loc is the base URL followed by "/"
C1_RootLoc ==
    \A f \in tree :
        (ran /\ tree = {f} /\ isRootMarker(f))
            => /\ Len(last.discovered) = 1
               /\ last.discovered[1].loc = options.baseUrl \o S_slash

\* the route of f with its parenthesized segments removed
ungroupedRouteOf(f) == SelectSeq(f.dir, LAMBDA seg : ~isParenthesized(seg)) \o routeNameOf(f)

isGroupedPage(f) ==
    /\ isPageFile(f)
    /\ \E k \in 1..Len(f.dir) : isParenthesized(f.dir[k])
    /\ \A k \in 1..Len(f.dir) : isParenthesized(f.dir[k]) \/ f.dir[k] = S_a
    /\ routeNameOf(f) \in {<<>>, <<S_a>>}
    /\ ungroupedRouteOf(f) # <<>>

\* C2: a page below parenthesized segments gets the loc of the same page without them:
\* the base URL, "/", and the remaining segments joined by "/", with no trailing slash
C2_GroupTransparent ==
    \A f \in tree :
        (ran /\ tree = {f} /\ isGroupedPage(f))
            => /\ Len(last.discovered) = 1
               /\ last.discovered[1].loc
                    = options.baseUrl \o S_slash \o join(ungroupedRouteOf(f), S_slash)

\* C3: nothing beneath a directory whose name begins with "_" yields an entry, and
\* no pass reads a directory or classifies a file beneath one
C3_PrivatePruned ==
    ran => /\ \A i \in 1..Len(last.discovered) : ~underPrivate(last.discovered[i].lastmod.mtimeOf)
           /\ \A path \in last.read \cup last.matched : ~underPrivate(path)

\* C4 as stated: a page with an ancestor directory beginning with "@" yields no entry
\* and, when debug.printIgnored is set, is reported as SSG-unhandled
C4_DynamicRejectedAndReported ==
    \A f \in tree :
        (ran /\ isPageFile(f) /\ hasDynamicAncestor(f))
            => /\ entriesOf(f) = {}
               /\ options.debug.printIgnored => reportedUnhandled(f)

\* C4 as amended: a page with an ancestor directory beginning with "@" yields no
\* entry, and when debug.printIgnored is set it is reported as SSG-unhandled provided
\* none of its ancestor directories begins with "_"
C4_DynamicRejected ==
    \A f \in tree :
        (ran /\ isPageFile(f) /\ hasDynamicAncestor(f))
            => /\ entriesOf(f) = {}
               /\ (options.debug.printIgnored /\ ~hasPrivateAncestor(f))
                      => reportedUnhandled(f)

\* the current generator has reported a page that inherits the rejection through an
\* ordinary directory
C4_Witness ==
    /\ last.handler = "closeBundle"
    /\ options.debug.printIgnored
    /\ \E f \in tree : /\ f.dir = <<S_dynamic, S_a>>
                       /\ reportedUnhandled(f)
                       /\ last.discovered = <<>>

\* C5: under 'ignore' every URL path of an accepted page is published exactly once,
\* by the first member of its clash group in the order of resolvedPagesSorter; a
\* group of one is published as it is
C5_IgnoreKeepsFirst ==
    (last.handler = "closeBundle" /\ options.clashingPathsResolution = "ignore")
        => \A f \in acceptedPages :
              /\ Cardinality(discoveredAt(locOf(f))) = 1
              /\ \E m \in clashGroup(f) :
                    /\ isFirstOf(m, clashGroup(f))
                    /\ \A i \in discoveredAt(locOf(f)) :
                          last.discovered[i].lastmod.mtimeOf = statPathOf(m)

\* a clash kept its first member although readdir listed another member first, next
\* to a page that does not clash
C5_Witness ==
    /\ last.handler = "closeBundle"
    /\ options.clashingPathsResolution = "ignore"
    /\ Len(last.groups) = 2
    /\ \E g \in 1..2 : /\ Len(last.groups[g]) >= 2
                       /\ last.classified[1].resolution = last.groups[g][1].resolution
                       /\ last.classified[1].shortPath # last.groups[g][1].shortPath
    /\ Len(last.discovered) = 2

\* C6: under 'remove' no member of a clash group of two or more is published, and
\* every accepted page that does not clash is published once
C6_RemoveDropsGroup ==
    (last.handler = "closeBundle" /\ options.clashingPathsResolution = "remove")
        => \A f \in acceptedPages :
              IF clashes(f) THEN discoveredAt(locOf(f)) = {}
              ELSE /\ Cardinality(discoveredAt(locOf(f))) = 1
                   /\ \A i \in discoveredAt(locOf(f)) :
                         last.discovered[i].lastmod.mtimeOf = statPathOf(f)

\* a clash group was dropped and the one page that does not clash was published
C6_Witness ==
    /\ last.handler = "closeBundle"
    /\ options.clashingPathsResolution = "remove"
    /\ \E f \in acceptedPages : clashes(f)
    /\ \E f \in acceptedPages : ~clashes(f)
    /\ Len(last.discovered) = 1

\* a handler has run in this step
handlerStep == last' # last \/ (notified /\ ~notified')

\* C7: under 'error', a pass over a tree with a clash throws, writes no sitemap
\* file, and leaves the dev server's in-memory sitemap as it was
C7_ErrorAborts ==
    [][(handlerStep /\ options.clashingPathsResolution = "error" /\ hasClash)
          => (last'.threw /\ disk' = disk /\ sitemapContent' = sitemapContent)]_vars

\* the dev server still holds the sitemap of before the change that brought the clash
C7_Witness ==
    /\ last.handler = "handleHotUpdate"
    /\ last.threw
    /\ hasClash
    /\ sitemapContent # NoContent
    /\ Len(sitemapContent.urlset) >= 1

\* C8: what is thrown for a clash under 'error' names every path of a clash group,
\* whatever debug.printRoutes is
C8_FatalNamesClash ==
    (last.handler = "closeBundle" /\ last.threw)
        => \E f \in acceptedPages :
              /\ clashes(f)
              /\ \A g \in clashGroup(f) : reportPathOf(g) \in rangeOf(last.thrown.paths)

\* C9: under 'ignore' and 'remove' every clash group is warned about, with all of
\* its paths, whatever debug.printRoutes is
C9_ClashWarned ==
    (last.handler = "closeBundle" /\ options.clashingPathsResolution \in {"ignore", "remove"})
        => \A f \in acceptedPages :
              clashes(f)
                  => \E i \in 1..Len(last.warned) :
                        /\ last.warned[i].text = "Routes definition clash found"
                        /\ \A g \in clashGroup(f) :
                              reportPathOf(g) \in rangeOf(last.warned[i].paths)

\* the locs that are taken when custom entry k is merged
takenBefore(k) ==
    {last.discovered[i].loc : i \in 1..Len(last.discovered)}
        \cup {options.customEntries[j].loc : j \in 1..(k - 1)}

\* the custom entries whose loc is not taken when they are merged, in their order
freshCustomEntries ==
    LET fresh[k \in 0..Len(options.customEntries)] ==
            IF k = 0 THEN <<>>
            ELSE IF options.customEntries[k].loc \in takenBefore(k) THEN fresh[k - 1]
                 ELSE Append(fresh[k - 1], options.customEntries[k])
    IN  fresh[Len(options.customEntries)]

\* the entries of the result that follow the discovered ones
appended == SubSeq(last.entries, Len(last.discovered) + 1, Len(last.entries))

\* C10: in the generator that merges custom entries, a custom entry whose loc is that
\* of a discovered entry or of an earlier custom entry is dropped with a warning,
\* whatever the policy; the discovered entries are retained and every other custom
\* entry is appended, in order
C10_CustomMerge ==
    (last.handler = "closeBundle" /\ ~last.threw)
        => /\ SubSeq(last.entries, 1, Len(last.discovered)) = last.discovered
           /\ appended = freshCustomEntries
           /\ \A k \in 1..Len(options.customEntries) :
                 options.customEntries[k].loc \in takenBefore(k)
                     => \E i \in 1..Len(last.warned) :
                           /\ last.warned[i].text = "Duplicate custom URL"
                           /\ last.warned[i].paths = <<options.customEntries[k].loc>>
(***************************************************************************)
(* C11..C20.                                                               *)
(***************************************************************************)
\* C11: after duplicate resolution and the merge of the custom entries, no two
\* entries of the list that is serialized have the same loc
C11_UniqueLocs ==
    (last.handler = "closeBundle" /\ ~last.threw)
        => \A i, j \in 1..Len(disk.urlset) :
              disk.urlset[i].loc = disk.urlset[j].loc => i = j
\* the paths of the sorted list a sorter returned
sortedPaths ==
    [i \in 1..Len(call.returned) |->
        IF call.fn = "sort"
        THEN IF call.returned[i].shortPath = <<>> THEN S_slash ELSE call.returned[i].shortPath
        ELSE call.returned[i].loc]

\* the first position at which two lists of segments differ, 0 if one is a prefix
firstDifference(x, y) ==
    LET differing == {k \in 1..Len(x) : k <= Len(y) /\ x[k] # y[k]}
    IN  IF differing = {} THEN 0 ELSE CHOOSE k \in differing : \A m \in differing : k <= m

\* x comes before y: a prefix first; else the deciding segment is the first that
\* differs, where a closing index comes first, then an "@"-prefixed segment, then the
\* alphabetically smaller one
sortsBefore(x, y) ==
    LET k == firstDifference(x, y)
    IN  IF k = 0 THEN Len(x) <= Len(y)
        ELSE IF k = Len(x) /\ x[k] = S_index THEN TRUE
        ELSE IF k = Len(y) /\ y[k] = S_index THEN FALSE
        ELSE IF startsWith(x[k], <<"@">>) # startsWith(y[k], <<"@">>)
             THEN startsWith(x[k], <<"@">>)
        ELSE localeCompare(x[k], y[k]) < 0

\* C12: whatever the order of the input, a sorter returns the same paths with the root
\* path first, then by deciding segment index, "@"-prefixed, alphabetical; the paths
\* "/zebra", "/", "/@id", "/alpha" come out as "/", "/@id", "/alpha", "/zebra"
C12_SorterOrder ==
    call.fn \in {"sort", "sortSitemapEntries"}
        => /\ Len(sortedPaths) = Len(call.args)
           /\ rangeOf(sortedPaths) = rangeOf(call.args)
           /\ \A i, j \in 1..Len(sortedPaths) :
                 i < j => sortsBefore(locSegments(sortedPaths[i]), locSegments(sortedPaths[j]))
           /\ S_slash \in rangeOf(call.args) => sortedPaths[1] = S_slash
           /\ rangeOf(call.args)
                = {S_slash \o S_zebra, S_slash, S_slash \o S_dynamic, S_slash \o S_alpha}
                 => sortedPaths
                      = <<S_slash, S_slash \o S_dynamic, S_slash \o S_alpha, S_slash \o S_zebra>>

\* sortSitemapEntries was handed "/zebra", "/", "/@id", "/alpha" in this order
C12_Witness ==
    /\ call.fn = "sortSitemapEntries"
    /\ call.args = <<S_slash \o S_zebra, S_slash, S_slash \o S_dynamic, S_slash \o S_alpha>>
    /\ sortedPaths = <<S_slash, S_slash \o S_dynamic, S_slash \o S_alpha, S_slash \o S_zebra>>
\* the entry list the generator of handler h publishes when readdir returns items
entriesFor(h, items) ==
    CASE h = "closeBundle" -> generateSitemapContent(options, S_rootDir, items).entries
      [] h = "sortedCloseBundle" -> generateSortedSitemapContent(options, S_rootDir, items).entries
      [] h = "walkerCloseBundle" -> generateSitemap(options, FALSE, S_rootDir, items).entries
      [] h = "suffixCloseBundle" -> generateSitemap(options, TRUE, S_rootDir, items).entries

\* C13: the entry list a pass publishes, members and order, is that of every other
\* order in which the file system may enumerate the unchanged tree
C13_Deterministic ==
    ran => \A items \in enumerations(S_rootDir, tree) :
              entriesFor(last.handler, items) = last.entries
\* the segments of a loc that follow those of the base URL
routeSegmentsOf(loc) ==
    SubSeq(locSegments(loc), Len(locSegments(options.baseUrl)) + 1, Len(locSegments(loc)))

\* a directory segment that is neither index, nor parenthesized, nor "_"- or "@"-prefixed
isPlainSegment(seg) ==
    /\ seg # S_index
    /\ ~isParenthesized(seg)
    /\ ~startsWith(seg, <<"_">>)
    /\ ~startsWith(seg, <<"@">>)

\* f is a page none of whose directories is "_"- or "@"-prefixed
isPublishedPage(f) ==
    /\ isPageFile(f)
    /\ routeNameOf(f) = <<>>
    /\ \A k \in 1..Len(f.dir) : ~startsWith(f.dir[k], <<"_">>) /\ ~startsWith(f.dir[k], <<"@">>)

\* xs can be obtained from ys by deleting elements
isSubsequence(xs, ys) ==
    LET matched[i \in 0..Len(ys)] ==
            IF i = 0 THEN 0
            ELSE IF matched[i - 1] < Len(xs) /\ xs[matched[i - 1] + 1] = ys[i]
                 THEN matched[i - 1] + 1
                 ELSE matched[i - 1]
    IN  matched[Len(ys)] = Len(xs)

\* C14 as stated: the plain directory segments of a page, a directory named pages
\* included, appear verbatim and in order among the segments of its URL path
C14_SegmentsVerbatim ==
    \A f \in tree :
        (ran /\ tree = {f} /\ isPublishedPage(f))
            => /\ Len(last.discovered) = 1
               /\ isSubsequence(SelectSeq(f.dir, isPlainSegment),
                                routeSegmentsOf(last.discovered[1].loc))
\* C14 as amended: the plain directory segments of a page other than those named
\* pages appear verbatim and in order among the segments of its URL path
C14_SegmentsVerbatimButPages ==
    \A f \in tree :
        (ran /\ tree = {f} /\ isPublishedPage(f))
            => /\ Len(last.discovered) = 1
               /\ isSubsequence(SelectSeq(f.dir, LAMBDA seg : isPlainSegment(seg) /\ seg # S_pages),
                                routeSegmentsOf(last.discovered[1].loc))

\* the current generator published the page of pages/a at the location of a
C14_Witness ==
    /\ last.handler = "closeBundle"
    /\ tree = {[dir |-> <<S_pages, S_a>>, name |-> S_PageTsx]}
    /\ Len(last.discovered) = 1
    /\ routeSegmentsOf(last.discovered[1].loc) = <<S_a>>
\* the loc the generator that ran last gives the page file f when it is alone in the tree
locAlone(f) == entriesFor(last.handler, listing(S_rootDir, <<f>>))[1].loc

\* the page file f moved to its directory without the segments named index
withoutIndex(f) == [f EXCEPT !.dir = SelectSeq(f.dir, LAMBDA seg : seg # S_index)]

\* C15: a directory named index contributes nothing to the URL path at any depth, and
\* what lies below it resolves as if it lay in the parent of the index directory
C15_IndexTransparent ==
    \A f \in tree :
        (ran /\ tree = {f} /\ isPublishedPage(f) /\ S_index \in rangeOf(f.dir))
            => /\ Len(last.discovered) = 1
               /\ last.discovered[1].loc = locAlone(withoutIndex(f))
\* what follows the base URL in loc
pathAfterBase(loc) == substring(loc, Len(options.baseUrl))

\* C16: the loc of every discovered entry is the base URL as the caller gave it,
\* followed by a path that starts with one "/" and holds no two consecutive slashes
C16_LocIsBasePlusPath ==
    ran => \A i \in 1..Len(last.discovered) :
              /\ startsWith(last.discovered[i].loc, options.baseUrl)
              /\ startsWith(pathAfterBase(last.discovered[i].loc), S_slash)
              /\ collapseSlashes(pathAfterBase(last.discovered[i].loc))
                    = pathAfterBase(last.discovered[i].loc)
\* the path of the file f
filePathOf(f) == pathOf(S_rootDir, f.dir) \o S_slash \o f.name

\* C17: with the directory marker, the page candidates are the files named +Page.<ext>
\* with one extension and no others, and no two members of a clash group lie in the
\* same directory
C17_ExactMarker ==
    last.handler \in {"closeBundle", "walkerCloseBundle", "sortedCloseBundle"}
        => /\ \A f \in tree :
                 /\ filePathOf(f) \in last.matched => matchesDirectoryMarker(f.name)
                 /\ (matchesDirectoryMarker(f.name) /\ ~hasPrivateAncestor(f))
                        => filePathOf(f) \in last.matched
           /\ \A g \in 1..Len(last.groups) : \A i, j \in 1..Len(last.groups[g]) :
                 last.groups[g][i].shortPath = last.groups[g][j].shortPath => i = j
\* robots.txt has been generated: written by a build or put in memory by the dev server
robotsGenerated ==
    \/ ~robotsDisk.absent
    \/ last.handler = "configureServer" /\ ~last.threw /\ options.robots # RobotsFalse

\* the robots.txt that has been generated
robotsGeneratedContent == IF robotsDisk.absent THEN robotsContent ELSE robotsDisk.content

\* the base URL without a closing slash
withoutTrailingSlash(url) == IF endsWith(url, S_slash) THEN SubSeq(url, 1, Len(url) - 1) ELSE url

\* the three lines, or the two when the cloudflare flag is not set
robotsLines(opts) ==
    S_UserAgent \o opts.robots.userAgent \o S_newline
        \o (IF opts.robots.disallow.cloudflare THEN S_DisallowCloudflare \o S_newline ELSE <<>>)
        \o S_Sitemap \o withoutTrailingSlash(opts.baseUrl) \o S_slash \o opts.filename

\* C18: generateRobotsTxtContent returns the User-agent line, the Disallow line exactly
\* when the cloudflare flag is set and no line in its place otherwise, and the Sitemap
\* line with the absolute URL of the sitemap under the base URL
C18_RobotsContent ==
    (robotsGenerated /\ options.baseUrl # UndefinedString)
        => robotsGeneratedContent = robotsLines(options)
\* closeBundle went as far as writing
built == last.handler = "closeBundle" /\ ~last.threw /\ last.read # {}

\* C19: with robots: false no robots.txt is written, the middleware passes a request
\* for /robots.txt on, and the sitemap is generated, written by the build and served
\* by the dev server all the same
C19_RobotsDisabled ==
    options.robots = RobotsFalse
        => /\ robotsDisk.absent
           /\ response.url = S_slash \o S_robotsTxt => response.by = "next"
           /\ built => disk = xmlOf(last.entries)
           /\ server = "serving" => sitemapContent = xmlOf(last.entries)
           /\ response.url = S_slash \o S_sitemapXml
                 => /\ response.by = "sitemap"
                    /\ response.body.content = xmlOf(last.entries)

\* the dev server, holding a sitemap of one page, passed a request for /robots.txt on
C19_Witness ==
    /\ options.robots = RobotsFalse
    /\ server = "serving"
    /\ Len(sitemapContent.urlset) = 1
    /\ response.url = S_slash \o S_robotsTxt
    /\ response.by = "next"
\* closeBundle has run for a production build whose caller supplied no base URL
builtWithoutBaseUrl ==
    /\ last.handler = "closeBundle"
    /\ env.NODE_ENV = "production"
    /\ supplied.baseUrl \in {MissingString, UndefinedString}

\* nothing was generated and neither file was written
nothingWritten == last.read = {} /\ last.entries = <<>> /\ disk = NoContent /\ robotsDisk = NoFile

\* C20 as stated: in production without a base URL closeBundle fails with the fatal
\* error before anything is generated, and neither file is written
C20_FatalWithoutBaseUrl ==
    builtWithoutBaseUrl
        => /\ last.threw
           /\ last.thrown = baseUrlMessage
           /\ nothingWritten

\* C20 as amended: in production without a base URL closeBundle for the client bundle
\* fails with the fatal error before anything is generated; for another bundle it
\* returns without an error; in both cases neither file is written
C20_FatalForClientBundle ==
    builtWithoutBaseUrl
        => /\ last.threw = (env.consumer = "client")
           /\ last.threw => last.thrown = baseUrlMessage
           /\ nothingWritten

\* the build of the client bundle of a tree with one page failed for want of a base URL
C20_Witness ==
    /\ builtWithoutBaseUrl
    /\ env.consumer = "client"
    /\ Cardinality(tree) = 1
    /\ last.threw
    /\ nothingWritten
(***************************************************************************)
(* C21..C30.                                                               *)
(***************************************************************************)
\* a pass of the current generator has run outside production
generatedOutsideProduction ==
    /\ last.handler \in {"closeBundle", "configureServer"}
    /\ last.read # {}
    /\ env.NODE_ENV # "production"

\* C21: an option the caller leaves out, or passes as undefined, has its documented
\* default before anything is generated: outside production every loc begins with
\* http://localhost:3000, and the clash policy is 'ignore'
C21_DefaultsResolved ==
    generatedOutsideProduction
        => /\ supplied.baseUrl \in {MissingString, UndefinedString}
                => /\ options.baseUrl = defaultBaseUrl
                   /\ \A i \in 1..Len(last.entries) :
                         startsWith(last.entries[i].loc, defaultBaseUrl \o S_slash)
           /\ supplied.clashingPathsResolution \in {"missing", "undefined"}
                => options.clashingPathsResolution = "ignore"
\* the current generator is about to read a tree one of whose directories is unreadable
scanFails == recursiveRead(S_rootDir, tree) \cap fs.unreadable # {}

\* C22: a pass over a tree one of whose directories cannot be read rejects with the
\* error of readdir, writes neither file, and leaves the dev server's sitemap and
\* robots.txt as they were
C22_ScanFailureAborts ==
    [][(handlerStep /\ scanFails)
          => /\ last'.threw
             /\ last'.thrown = readdirError
             /\ disk' = disk
             /\ robotsDisk' = robotsDisk
             /\ sitemapContent' = sitemapContent
             /\ robotsContent' = robotsContent]_vars

\* the dev server still holds the sitemap and the robots.txt of its first pass after
\* the pass for a change rejected on an unreadable directory
C22_Witness ==
    /\ last.handler = "handleHotUpdate"
    /\ last.threw
    /\ last.thrown = readdirError
    /\ server = "serving"
    /\ Len(sitemapContent.urlset) >= 1
    /\ robotsContent # <<>>
    /\ disk = PreviousSitemap

\* what the entry of a page carries as lastmod when path is the path the generator
\* reads the modification time of
lastmodAt(path) ==
    IF path \in fs.failing THEN Undefined
    ELSE [mtimeOf |-> path, formatted |-> formatDate(statMtime(path))]

\* C23: when stat fails on the path of one page the pass completes all the same, that
\* page is published without lastmod, and every other page is published with its own
\* lastmod, the default changefreq and the default priority
C23_StatFailureOmitsLastmod ==
    last.handler = "closeBundle"
        => /\ ~last.threw
           /\ \A f \in acceptedPages :
                 \E m \in clashGroup(f) :
                    /\ isFirstOf(m, clashGroup(f))
                    /\ Cardinality(discoveredAt(locOf(f))) = 1
                    /\ \A i \in discoveredAt(locOf(f)) :
                          last.discovered[i]
                            = [loc |-> locOf(f), lastmod |-> lastmodAt(statPathOf(m)),
                               changefreq |-> options.defaultChangefreq,
                               priority |-> options.defaultPriority]

\* stat failed for one of two published pages: its entry has no lastmod, the other has
C23_Witness ==
    /\ last.handler = "closeBundle"
    /\ ~last.threw
    /\ Cardinality(fs.failing) = 1
    /\ Len(last.discovered) = 2
    /\ \E i, j \in 1..2 :
          /\ last.discovered[i].lastmod = Undefined
          /\ last.discovered[j].lastmod # Undefined
          /\ last.discovered[j].lastmod.formatted = formatDate(1)
    /\ \E k \in 1..Len(last.warned) : last.warned[k].text = "Could not get last modified date for"

\* C30: the lastmod of the entry of a page is the formatted modification time of its
\* +Page file: it follows that file's modification time and that of no other path
C30_LastmodOfPageFile ==
    \A f \in tree :
        (ran /\ ~last.threw /\ tree = {f} /\ Len(last.discovered) = 1
             /\ filePathOf(f) \notin fs.failing /\ statPathOf(f) \notin fs.failing)
            => last.discovered[1].lastmod.formatted = formatDate(statMtime(filePathOf(f)))

\* a comparator has been applied to every pair of the paths
compared == call.fn \in {"sitemapEntriesSorter", "resolvedPagesSorter"}

\* the segments of the i-th path handed to the comparator
segmentsAt(i) == locSegments(call.args[i])

\* the comparison of the i-th with the j-th path is decided at position k by the rule
\* of the parameterized segment: the first k - 1 segments agree, the i-th path has an
\* "@"-prefixed segment at k, the j-th has not, and neither closes on index there
decidedByParameter(i, j, k) ==
    /\ k = firstDifference(segmentsAt(i), segmentsAt(j))
    /\ k # 0
    /\ startsWith(segmentsAt(i)[k], <<"@">>)
    /\ ~startsWith(segmentsAt(j)[k], <<"@">>)
    /\ ~(k = Len(segmentsAt(i)) /\ segmentsAt(i)[k] = S_index)
    /\ ~(k = Len(segmentsAt(j)) /\ segmentsAt(j)[k] = S_index)

\* C27 as stated: when the deciding segments are one parameterized and one not, and
\* neither is a closing index, the path with the parameterized segment sorts after
C27_ParameterizedAfter ==
    compared
        => \A i, j \in 1..Len(call.args) : \A k \in 1..Len(segmentsAt(i)) :
              decidedByParameter(i, j, k)
                  => call.returned[i][j] > 0 /\ call.returned[j][i] < 0

\* C27 as amended: in that case the path with the parameterized segment sorts before
C27_ParameterizedBefore ==
    compared
        => \A i, j \in 1..Len(call.args) : \A k \in 1..Len(segmentsAt(i)) :
              decidedByParameter(i, j, k)
                  => call.returned[i][j] < 0 /\ call.returned[j][i] > 0

\* "/alpha/@id" was compared with "/alpha/zebra", in both directions and by each
\* comparator in turn
C27_Witness ==
    /\ compared
    /\ \E i, j \in 1..Len(call.args) :
          /\ call.args[i] = S_slash \o S_alpha \o S_slash \o S_dynamic
          /\ call.args[j] = S_slash \o S_alpha \o S_slash \o S_zebra
          /\ decidedByParameter(i, j, 2)
          /\ call.returned[i][j] = -1
          /\ call.returned[j][i] = 1

sign(n) == IF n < 0 THEN -1 ELSE IF n > 0 THEN 1 ELSE 0

\* C28: the comparator is a strict weak ordering: a path compares equal to itself, the
\* two directions of a comparison have opposite signs, the order is transitive, only
\* identical paths compare equal, and a proper prefix of a path comes before it
C28_StrictWeakOrdering ==
    compared
        => \A i, j \in 1..Len(call.args) :
              /\ call.returned[i][i] = 0
              /\ sign(call.returned[i][j]) = -sign(call.returned[j][i])
              /\ call.returned[i][j] = 0 => segmentsAt(i) = segmentsAt(j)
              /\ (Len(segmentsAt(i)) < Len(segmentsAt(j))
                    /\ segmentsAt(i) = SubSeq(segmentsAt(j), 1, Len(segmentsAt(i))))
                   => call.returned[i][j] < 0
              /\ \A k \in 1..Len(call.args) :
                    (call.returned[i][j] < 0 /\ call.returned[j][k] < 0)
                        => call.returned[i][k] < 0

\* the segments of the URL path of the i-th entry of the list that was serialized
urlSegmentsAt(i) == routeSegmentsOf(disk.urlset[i].loc)

\* C29: the list that is serialized, custom entries included, is in the order of the
\* Entry Sorter on the URL paths: no entry comes before one whose path sorts before it
C29_SerializedInSorterOrder ==
    (last.handler \in {"closeBundle", "sortedCloseBundle"} /\ ~last.threw)
        => \A i, j \in 1..Len(disk.urlset) :
              i < j => sortsBefore(urlSegmentsAt(i), urlSegmentsAt(j))

\* every pass that was called has assigned its result or rejected
allPassesDone == \A i \in 1..Len(passes) : passes[i].stage = "done"

\* the pass that was called last
latestPass == passes[Len(passes)]

\* C24: once every pass has completed, the sitemap served is the output of the pass
\* that was triggered last, whatever the order the overlapping passes completed in
C24_LatestPassServed ==
    (server = "serving" /\ Len(passes) >= 2 /\ allPassesDone /\ ~latestPass.run.threw)
        => sitemapContent = xmlOf(latestPass.run.entries)

\* the file of the pending notification is under the configured scan root
underScanRoot ==
    /\ Len(file) > Len(resolvedPagesDir(options))
    /\ SubSeq(file, 1, Len(resolvedPagesDir(options)) + 1) = resolvedPagesDir(options) \o S_slash

\* C25: every notification for a file under the configured scan root, whatever the
\* name of pagesDir, starts one regeneration pass when handleHotUpdate handles it
C25_EveryNotificationTriggers ==
    [][(notified /\ ~notified' /\ underScanRoot) => Len(passes') = Len(passes) + 1]_vars

\* the documents of the passes that completed without rejecting
completedOutputs ==
    {xmlOf(passes[i].run.entries) :
        i \in {j \in 1..Len(passes) : passes[j].stage = "done" /\ ~passes[j].run.threw}}

\* the middleware exists only after the pass of configureServer, and what it holds and
\* answers with is the whole output of a completed pass
servesCompletedPass ==
    /\ (server = "serving" \/ response # NoResponse)
          => /\ Len(passes) >= 1
             /\ passes[1].stage = "done"
             /\ sitemapContent # NoContent
             /\ sitemapContent \in completedOutputs
             /\ robotsContent # <<>>
             /\ robotsContent = generateRobotsTxtContent(options)
    /\ response.by = "sitemap" => response.body.content \in completedOutputs
    /\ response.by = "robots" => response.body.content = generateRobotsTxtContent(options)

\* a step that changes one of the two contents is the completion of one pass, which
\* assigns both of them
replacedTogether ==
    (sitemapContent' # sitemapContent \/ robotsContent' # robotsContent)
        => \E i \in 1..Len(passes) :
              /\ passes[i].stage = "generated"
              /\ passes'[i].stage = "done"
              /\ ~passes[i].run.threw
              /\ sitemapContent' = xmlOf(passes[i].run.entries)
              /\ robotsContent' = generateRobotsTxtContent(options)

\* C26: the dev request handler is not reachable before the first pass has completed,
\* it answers a sitemap or robots request with the complete output of one completed
\* pass, never with an empty document, and the two contents are replaced together by
\* the same pass
C26_CompleteOutputServed == [](servesCompletedPass) /\ [][replacedTogether]_vars

C26_Witness ==
    /\ response.by = "sitemap"
    /\ Len(passes) >= 2
    /\ passes[2].stage = "done"
    /\ response.body.content = xmlOf(passes[2].run.entries)
    /\ response.body.content # xmlOf(passes[1].run.entries)

====
